---- MODULE Spec2Model ----
(***************************************************************************)
(* har_backup: the blob-storage handle (TaskHelper, AsyncComm / SyncComm,  *)
(* the local-directory and S3 tasks) and the Mirror transfer loop          *)
(* (Mirror::push / Mirror::pull), as state machines.                       *)
(*                                                                         *)
(*   Spec         one call of Mirror::push or Mirror::pull on a fresh      *)
(*                handle, with the task threads it spawns                  *)
(*   SpecStorage  a client of one handle that subscribes, submits exists   *)
(*                tasks and calls exists_blocking, in any order            *)
(*   SpecChannels a client that subscribes, drops receivers and submits    *)
(*                exists tasks; FairChannels adds the scheduler's          *)
(*                fairness: a spawned thread eventually runs               *)
(*   SpecTasks    a client that uploads, downloads and asks exists, async  *)
(*                and blocking, on a remote that may hold a manifest blob  *)
(*   SpecTrip     encrypt_blob / decrypt_blob round trips on the blobs of  *)
(*                a store                                                  *)
(*   SpecMirror   Mirror::init, get_manifest_blob and push_manifest_blob   *)
(*                in any order, with storage faults                        *)
(*   SpecManifest Manifest::add and join_and_get_entry_id on one arena     *)
(*   SpecDiff     diff_manifests on two arenas built with Manifest::add    *)
(*   SpecArchive  WithRemoteAndLocal::push and pull on an archive root,    *)
(*                composed with the Mirror loop and its task threads       *)
(*   SpecCipher   EncryptWithChacha: encrypt_blob_bytes and                *)
(*                decrypt_blob_bytes on byte strings, keys and nonces      *)
(*   SpecOverLimit  the Mirror loop on a healthy store with files over the *)
(*                in-flight byte limit; FairOverLimit adds the scheduler   *)
(*   SpecFresh    the default upload_blocking: events, submit, recv        *)
(*   SpecJoin     join_and_get_entry_id on the arenas Manifest::add builds *)
(*   SpecMerge    add_new_entries_to_manifest of one arena into another    *)
(*   SpecSync     the same merge, by a caller that keeps no record of its  *)
(*                adds                                                     *)
(*   SpecHash     diff_manifests with hash check on two arenas             *)
(*   SpecPanic    the Mirror loop with task threads that install the panic *)
(*                hook and may panic                                       *)
(*   SpecAgain    two transfers, one after the other, on the same Mirror   *)
(*   FairSpec     Spec with the scheduler's fairness                       *)
(*   SpecLocal    uploads and downloads on the local directory, with       *)
(*                std::fs::write as its two steps                          *)
(*   SpecChildren get_child_files_recurs and get_child_dirs_recurs on the  *)
(*                arenas Manifest::add builds                              *)
(***************************************************************************)
EXTENDS Integers, Sequences, FiniteSets, TLC

\* ------------------------------------------------------------------ bounds
MaxFiles == 2      \* longest input list of push / pull
MaxSize == 2       \* largest file, in bytes
MaxTasks == 2      \* async submissions of the SpecStorage client
MaxRx == 2         \* events() subscriptions of the SpecStorage / SpecChannels client
MaxRuns == 1       \* async submissions of the SpecChannels / SpecTasks client
MaxEntries == 2    \* entries added to manifest A (B takes one less); entries of an archive's tree

\* ------------------------------------------------------------ basic values
None == <<>>
Some(x) == <<x>>

\* A key is a string; the model writes a string key as a tuple.
MANIFEST_KEY == <<"manifest">>

\* File contents: n bytes of 42, as in the tests' make_files.
Payload(n) == [i \in 1..n |-> 42]

Backends == {"local", "s3"}

\* The scope mixed into the content hash: the local directory path, or the bucket name.
Scope(b) == IF b = "local" THEN "dir" ELSE "bucket"

\* BLAKE3 over "har_backup", the scope and the plaintext: injective in the model.
get_hash_name(bucket_name, data) == <<"har_backup", bucket_name, data>>

\* ---------------------------------------------------------------- events
UploadSuccess(key) == <<"UploadSuccess", key>>
DownloadSuccess(bytes) == <<"DownloadSuccess", bytes>>
ExistsSuccess(b) == <<"ExistsSuccess", b>>
Error(msg) == <<"Error", msg>>
Event(id, content) == [id |-> id, content |-> content]

\* ------------------------------------------------------------- encryption
\* A blob at rest: what it unseals to, and whether its tag verifies. The nonce
\* and the ciphertext bytes are not observed by anything but decrypt_blob.
TornBlob == [sealed |-> <<>>, auth |-> FALSE]

encrypt_blob(data, ok) ==
    IF ok THEN <<"Ok", [sealed |-> data, auth |-> TRUE]>>
          ELSE <<"Err", "cipher.encrypt error">>

\* A decryption that loses the last byte.
decrypt_blobShort(blob) ==
    IF blob.auth THEN <<"Ok", SubSeq(blob.sealed, 1, Len(blob.sealed) - 1)>>
                 ELSE <<"Err", "cipher.decrypt error">>

decrypt_blob(blob) ==
    IF blob.auth THEN <<"Ok", blob.sealed>>
                 ELSE <<"Err", "cipher.decrypt error">>

\* ------------------------------------------------------------------ state
VARIABLES
    backend,        \* which BlobStorage implementation the handle is
    store,          \* the remote: key -> blob, for the keys that exist
    senders,        \* TaskHelper.senders: the receivers' ids, in order
    next_task_id,   \* TaskHelper.next_task_id
    rx,             \* the channels created so far: [alive, disconnect, queue]
    threads,        \* spawned task threads that have not ended: id -> task
    issued,         \* history: the TaskIds returned by run_task, in order
    ret,            \* history: what the last blocking call did and returned
    mode,           \* Mirror: "push" | "pull" | "none"
    files,          \* Mirror: the input list
    config,         \* Mirror: TransferConfig
    pc,             \* Mirror: "init" | "loop" | "ok" | "err" | "panic" | "idle"
    events,         \* Mirror: the receiver of this call (0: none)
    active_tasks,   \* Mirror: TaskId -> index
    active_size,    \* Mirror: sum of size of files being transferred
    results,        \* Mirror::push: Vec<Option<UploadResult>>
    sizes,          \* Mirror::push: Vec<Option<usize>>
    next_index,     \* Mirror: next index to submit (0-based)
    task_of,        \* history: index (Mirror) or request (client) -> the TaskId its submission returned
    received,       \* history: the events recv() returned, in order
    disk,           \* Mirror::pull: path -> bytes written under the prefix
    manifest_a,     \* Manifest: the manifest a caller builds and diffs (A)
    manifest_b,     \* Manifest: the manifest it is diffed against (B)
    applied,        \* history: the last Manifest operation, its arguments and its result
    dirs,           \* the local disk: the directories, as paths from the prefix / archive root
    dot_har,        \* DotHar: the files fetched_manifest and fetched_manifest.backup
    cwd,            \* the directory the process runs in, as a path from the archive root
    cmd,            \* WithRemoteAndLocal: the command under way or ended last
    process         \* the process: its panic hook, and the status it has exited with

storage_vars == <<backend, store, senders, next_task_id, rx, threads, issued, ret>>
mirror_vars == <<mode, files, config, pc, events, active_tasks, active_size, results,
                 sizes, next_index, task_of, received, disk>>
tree_vars == <<manifest_a, manifest_b, applied, dirs, dot_har, cwd, cmd, process>>
vars == <<storage_vars, mirror_vars, tree_vars>>

\* ---------------------------------------------------------------- helpers
Range(s) == {s[i] : i \in DOMAIN s}

\* A write that keeps what is already stored under the key.
WriteOnce(st, key, blob) ==
    IF key \in DOMAIN st THEN st
    ELSE [k \in DOMAIN st \cup {key} |-> IF k = key THEN blob ELSE st[k]]

Write(st, key, blob) == [k \in DOMAIN st \cup {key} |-> IF k = key THEN blob ELSE st[k]]

Put(f, k, v) == [x \in DOMAIN f \cup {k} |-> IF x = k THEN v ELSE f[x]]

Remove(f, k) == [x \in DOMAIN f \ {k} |-> f[x]]

RECURSIVE SumOver(_, _)
SumOver(f, S) ==
    IF S = {} THEN 0
    ELSE LET x == CHOOSE y \in S : TRUE IN f[x] + SumOver(f, S \ {x})

Last(s) == s[Len(s)]

\* A Vec in the order its HashMap or its stack gave it.
RECURSIVE SeqOf(_)
SeqOf(S) ==
    IF S = {} THEN <<>>
    ELSE LET x == CHOOSE y \in S : TRUE IN <<x>> \o SeqOf(S \ {x})

EmptyFn == [x \in {} |-> 0]

\* Path::parent
ParentPath(path) == SubSeq(path, 1, Len(path) - 1)

\* ---------------------------------------------------------------- Manifest
\* An entry of the arena. A directory has the map name -> EntryId of its
\* children; a file has its blob key and size.
Directory(name, entries) ==
    [kind |-> "dir", name |-> name, entries |-> entries, blob_key |-> None, size |-> 0]

File(name, blob_key, size) ==
    [kind |-> "file", name |-> name, entries |-> EmptyFn, blob_key |-> blob_key, size |-> size]

\* Manifest::new(): the arena holds the root directory, at id 0.
ManifestNew == [root |-> 0, entries |-> <<Directory("ROOT", EmptyFn)>>]

\* The MessagePack value rmp_serde writes for an Entry: a derived enum is a
\* one-pair map variant -> content, a derived struct the array of its fields,
\* a HashMap a map (its pairs in the order the iteration gives), EntryId the
\* array of its one field.
serialize_entry(entry) ==
    IF entry.kind = "dir"
    THEN <<"Directory",
           <<entry.name, SeqOf({<<name, <<entry.entries[name]>>>> : name \in DOMAIN entry.entries})>>>>
    ELSE <<"File", <<entry.name, entry.blob_key, entry.size>>>>

\* Reading an Entry back: the variant chooses the struct, the pairs of a map
\* are inserted one by one.
deserialize_entry(value) ==
    IF value[1] = "Directory"
    THEN Directory(value[2][1],
                   [name \in {pair[1] : pair \in Range(value[2][2])} |->
                       (CHOOSE pair \in Range(value[2][2]) : pair[1] = name)[2][1]])
    ELSE File(value[2][1], value[2][2], value[2][3])

\* Manifest::to_bytes (rmp_serde::encode::to_vec): the bytes are written as
\* the MessagePack value they hold, the array of root and entries.
to_bytes(manifest) ==
    <<"rmp", <<<<manifest.root>>,
               [i \in DOMAIN manifest.entries |-> serialize_entry(manifest.entries[i])]>>>>

\* A decoder that reads every directory as empty.
from_bytesFlat(bytes) ==
    <<"Ok", [root |-> bytes[2][1][1],
             entries |-> [i \in DOMAIN bytes[2][2] |->
                             [deserialize_entry(bytes[2][2][i]) EXCEPT !.entries = EmptyFn]]]>>

\* Manifest::from_bytes (rmp_serde::decode::from_slice): bytes that to_bytes
\* did not write do not decode.
from_bytes(bytes) ==
    IF Len(bytes) = 2 /\ bytes[1] = "rmp"
    THEN <<"Ok", [root |-> bytes[2][1][1],
                  entries |-> [i \in DOMAIN bytes[2][2] |-> deserialize_entry(bytes[2][2][i])]]>>
    ELSE <<"Err", "rmp_serde decode error">>

\* Manifest::get_stats
get_stats(manifest) ==
    [num_dirs |-> Cardinality({i \in DOMAIN manifest.entries : manifest.entries[i].kind = "dir"}),
     num_files |-> Cardinality({i \in DOMAIN manifest.entries : manifest.entries[i].kind = "file"})]

\* ------------------------------------------------- what can go wrong in a run
\* One run meets at most one fault of its environment:
\*   enc     encrypt_blob fails            io      the filesystem call fails
\*   torn    fs::write fails after it truncated or partly wrote the file
\*   http    the request fails (transport error or an error status)
\*   status  HEAD answers an error status other than 404
\*   body    reading the response body fails
Faults(b, kind) ==
    IF b = "local"
    THEN CASE kind = "upload" -> {"none", "enc", "io", "torn"}
           [] kind = "download" -> {"none", "io"}
           [] OTHER -> {"none"}
    ELSE CASE kind = "upload" -> {"none", "enc", "http"}
           [] kind = "download" -> {"none", "http", "body"}
           [] OTHER -> {"none", "http", "status"}

\* ------------------------------------------------------------- task bodies
\* Each gives the event contents the run hands to its Comm, in order, and the
\* store it leaves.

\* An upload whose encryption-error arm does not return.
LocalUploadRunNoReturn(st, key_opt, data, fault) ==
    LET key == IF key_opt = None THEN get_hash_name(Scope("local"), data) ELSE key_opt[1]
        enc == encrypt_blob(data, fault # "enc")
        first == IF enc[1] = "Err" THEN <<Error("Error while encrypting")>> ELSE <<>>
    IN  IF fault \in {"io", "torn"}
        THEN [events |-> first \o <<Error("Error while opening file")>>,
              store |-> IF fault = "torn" THEN Write(st, key, TornBlob) ELSE st]
        ELSE [events |-> first \o <<UploadSuccess(key)>>,
              store |-> Write(st, key, IF enc[1] = "Err" THEN TornBlob ELSE enc[2])]

LocalUploadRun(st, key_opt, data, fault) ==
    LET key == IF key_opt = None THEN get_hash_name(Scope("local"), data) ELSE key_opt[1]
        enc == encrypt_blob(data, fault # "enc")
    IN  IF enc[1] = "Err"
        THEN [events |-> <<Error("Error while encrypting")>>, store |-> st]
        ELSE IF fault \in {"io", "torn"}
        THEN [events |-> <<Error("Error while opening file")>>,
              store |-> IF fault = "torn" THEN Write(st, key, TornBlob) ELSE st]
        ELSE [events |-> <<UploadSuccess(key)>>, store |-> Write(st, key, enc[2])]

LocalDownloadRun(st, key, fault) ==
    IF key \notin DOMAIN st \/ fault = "io"
    THEN [events |-> <<Error("Error while opening/reading")>>, store |-> st]
    ELSE LET dec == decrypt_blob(st[key])
         IN  IF dec[1] = "Err"
             THEN [events |-> <<Error("Error while decrypting")>>, store |-> st]
             ELSE [events |-> <<DownloadSuccess(dec[2])>>, store |-> st]

LocalExistsRun(st, key) ==
    [events |-> <<ExistsSuccess(key \in DOMAIN st)>>, store |-> st]

S3UploadRun(st, key_opt, data, fault) ==
    LET key == IF key_opt = None THEN get_hash_name(Scope("s3"), data) ELSE key_opt[1]
        enc == encrypt_blob(data, fault # "enc")
    IN  IF enc[1] = "Err"
        THEN [events |-> <<Error("Error while encrypting")>>, store |-> st]
        ELSE IF fault = "http"
        THEN [events |-> <<Error("Error while uploading")>>, store |-> st]
        ELSE [events |-> <<UploadSuccess(key)>>, store |-> Write(st, key, enc[2])]

S3DownloadRun(st, key, fault) ==
    IF key \notin DOMAIN st \/ fault = "http"
    THEN [events |-> <<Error("Error while downloading")>>, store |-> st]
    ELSE IF fault = "body"
    THEN [events |-> <<Error("Error while reading response content")>>, store |-> st]
    ELSE LET dec == decrypt_blob(st[key])
         IN  IF dec[1] = "Err"
             THEN [events |-> <<Error("Error while decrypting")>>, store |-> st]
             ELSE [events |-> <<DownloadSuccess(dec[2])>>, store |-> st]

S3ExistsRun(st, key, fault) ==
    IF fault = "http"
    THEN [events |-> <<Error("Error while head'ing")>>, store |-> st]
    ELSE IF fault = "status"
    THEN [events |-> <<Error("Error while head'ing")>>, store |-> st]
    ELSE IF key \notin DOMAIN st
    THEN [events |-> <<ExistsSuccess(FALSE)>>, store |-> st]
    ELSE [events |-> <<ExistsSuccess(TRUE)>>, store |-> st]

\* Task::run of the task the handle built (new_upload_task, new_download_task,
\* new_exists_task), whatever the Comm.
RunBody(b, st, kind, key, data, fault) ==
    CASE kind = "upload" ->
           IF b = "local" THEN LocalUploadRun(st, key, data, fault)
                          ELSE S3UploadRun(st, key, data, fault)
      [] kind = "download" ->
           IF b = "local" THEN LocalDownloadRun(st, key[1], fault)
                          ELSE S3DownloadRun(st, key[1], fault)
      [] OTHER ->
           IF b = "local" THEN LocalExistsRun(st, key[1])
                          ELSE S3ExistsRun(st, key[1], fault)

\* ------------------------------------------------------------------- Comm
\* AsyncComm::send_event: to every sender of the snapshot; a send into a
\* channel whose receiver is gone fails, and the failure is dropped.
\* A send to the receiver subscribed last, whatever the snapshot holds.
AsyncSendEventToLast(chs, snapshot, event) ==
    [r \in DOMAIN chs |->
        IF r = Len(chs) /\ chs[r].alive THEN [chs[r] EXCEPT !.queue = Append(@, event)]
                                        ELSE chs[r]]

\* A send to every receiver alive now, whatever the snapshot holds.
AsyncSendEventToAll(chs, snapshot, event) ==
    [r \in DOMAIN chs |->
        IF chs[r].alive THEN [chs[r] EXCEPT !.queue = Append(@, event)] ELSE chs[r]]

AsyncSendEvent(chs, snapshot, event) ==
    [r \in DOMAIN chs |->
        IF r \in Range(snapshot) /\ chs[r].alive
        THEN [chs[r] EXCEPT !.queue = Append(@, event)]
        ELSE chs[r]]

RECURSIVE AsyncSendAll(_, _, _, _)
AsyncSendAll(chs, snapshot, id, contents) ==
    IF contents = <<>> THEN chs
    ELSE AsyncSendAll(AsyncSendEvent(chs, snapshot, Event(id, Head(contents))),
                      snapshot, id, Tail(contents))

\* SyncComm: task_id() is 0, send_event pushes onto the caller's Vec.
SyncEvents(contents) == [i \in DOMAIN contents |-> Event(0, contents[i])]

\* ------------------------------------------------------------- TaskHelper
\* Sender::disconnected() of the sender of channel r.
Disconnected(chs, r) == chs[r].disconnect

\* A pruning that keeps the disconnected senders and drops the connected ones.
clean_sendersInverted(chs, s) == SelectSeq(s, LAMBDA r : Disconnected(chs, r))

\* A pruning that removes nothing.
clean_sendersKeepAll(chs, s) == s

clean_senders(chs, s) == SelectSeq(s, LAMBDA r : ~Disconnected(chs, r))

\* An allocation that does not advance.
AllocTaskIdSame(n) == n

AllocTaskId(n) == n + 1

\* The receivers alive at this moment (history, for the claims: not read by the code).
LiveRx == {r \in DOMAIN rx : rx[r].alive}

\* TaskHelper::run_task: the id, the pruning, the snapshot, the spawned thread.
RunTask(kind, key, data) ==
    LET task_id == next_task_id
        cleaned == clean_senders(rx, senders)
    IN  /\ next_task_id' = AllocTaskId(next_task_id)
        /\ senders' = cleaned
        /\ threads' = Put(threads, task_id,
                          [kind |-> kind, key |-> key, data |-> data, snapshot |-> cleaned,
                           at |-> "run", fault |-> "none", saw |-> None,
                           out |-> <<>>, live |-> LiveRx])
        /\ issued' = Append(issued, task_id)

\* TaskHelper::events (and BlobStorageLocalDirectory::events).
NewChannel == [alive |-> TRUE, disconnect |-> FALSE, queue |-> <<>>]

Subscribe ==
    /\ rx' = Append(rx, NewChannel)
    /\ senders' = Append(senders, Len(rx) + 1)

\* A drop that leaves the flag as it is.
DropReceiverSilent(chs, r) ==
    [chs EXCEPT ![r] = [alive |-> FALSE, disconnect |-> @.disconnect, queue |-> <<>>]]

\* Drop for Receiver: the flag is set and the queue goes with the receiver.
DropReceiver(chs, r) ==
    [chs EXCEPT ![r] = [alive |-> FALSE, disconnect |-> TRUE, queue |-> <<>>]]

\* ------------------------------------------------------------ task threads
\* History, for the claims: the blob a download or exists run found under its key.
Seen(st, task) ==
    IF task.kind # "upload" /\ task.key[1] \in DOMAIN st THEN Some(st[task.key[1]]) ELSE None

\* The spawned thread runs the task: the I/O first ...
TaskRun(t) ==
    /\ t \in DOMAIN threads
    /\ threads[t].at = "run"
    /\ \E fault \in Faults(backend, threads[t].kind) :
          LET res == RunBody(backend, store, threads[t].kind, threads[t].key,
                             threads[t].data, fault)
          IN  /\ store' = res.store
              /\ threads' = [threads EXCEPT ![t].at = "send", ![t].fault = fault,
                                                 ![t].saw = Seen(store, threads[t]),
                                                 ![t].out = res.events]
    /\ UNCHANGED <<tree_vars, backend, senders, next_task_id, rx, issued, ret, mirror_vars>>

\* ... then its events go out through the AsyncComm, and the thread ends.
TaskSend(t) ==
    /\ t \in DOMAIN threads
    /\ threads[t].at = "send"
    /\ rx' = AsyncSendAll(rx, threads[t].snapshot, t, threads[t].out)
    /\ threads' = Remove(threads, t)
    /\ UNCHANGED <<tree_vars, backend, store, senders, next_task_id, issued, ret, mirror_vars>>

TaskIds == 0..(MaxTasks + MaxFiles)

TaskStep == \E t \in TaskIds : TaskRun(t) \/ TaskSend(t)


\* ------------------------------------------------------------------ Mirror
\* files[i] is the input at index i-1: its path, and its size in bytes. In push
\* the file's bytes are read from prefix/path; in pull the blob key and the size
\* come with the path (archive_path, blob_key, file_size).
FileData(f) == Payload(f.size)
FileKey(b, f) == get_hash_name(Scope(b), FileData(f))
NumFiles == Len(files)

\* The loop condition without its bound on the number of tasks.
AdmissionGuardNoTaskLimit(total, nidx, asize, atasks, cfg) ==
    /\ nidx < total
    /\ (asize < cfg.active_size_limit \/ DOMAIN atasks = {})

\* The loop condition without its bound on the size in flight.
AdmissionGuardNoSizeLimit(total, nidx, asize, atasks, cfg) ==
    /\ nidx < total
    /\ Cardinality(DOMAIN atasks) < cfg.active_tasks_limit

\* The loop condition admitting at the size limit, not only below it.
AdmissionGuardInclusive(total, nidx, asize, atasks, cfg) ==
    /\ nidx < total
    /\ (asize <= cfg.active_size_limit \/ DOMAIN atasks = {})
    /\ Cardinality(DOMAIN atasks) < cfg.active_tasks_limit

\* The loop condition without its exception for an empty active_tasks.
AdmissionGuardNoException(total, nidx, asize, atasks, cfg) ==
    /\ nidx < total
    /\ asize < cfg.active_size_limit
    /\ Cardinality(DOMAIN atasks) < cfg.active_tasks_limit

\* The condition of the inner while loop of push and pull.
AdmissionGuard(total, nidx, asize, atasks, cfg) ==
    /\ nidx < total
    /\ (asize < cfg.active_size_limit \/ DOMAIN atasks = {})
    /\ Cardinality(DOMAIN atasks) < cfg.active_tasks_limit

CanAdmit == AdmissionGuard(NumFiles, next_index, active_size, active_tasks, config)

\* Completion taken in submission order: the oldest index in flight, whatever the id.
LookupIndexOldest(atasks, id) ==
    CHOOSE i \in Range(atasks) : \A j \in Range(atasks) : i <= j

\* active_tasks[&event.id]
LookupIndex(atasks, id) == atasks[id]

\* A completion that leaves active_size as it was.
SizeAfterDoneKept(asize, size) == asize

\* active_size -= size
SizeAfterDone(asize, size) == asize - size

\* let events = self.blob_storage.events();
MirrorEnter ==
    /\ pc = "init"
    /\ Subscribe
    /\ events' = Len(rx) + 1
    /\ pc' = "loop"
    /\ UNCHANGED <<tree_vars, backend, store, next_task_id, threads, issued, ret, mode, files,
                   config, active_tasks, active_size, results, sizes, next_index, task_of,
                   received, disk>>

\* The function returns (Ok, Err or a panic unwinding): its receiver is dropped.
MirrorLeave(how, chs) ==
    /\ pc' = how
    /\ rx' = DropReceiver(chs, events)

\* One turn of the inner while loop of push: read the file, upload it, record it.
\* std::fs::read(file_path)? may fail, and push returns that error.
PushAdmit ==
    /\ pc = "loop" /\ mode = "push" /\ CanAdmit
    /\ \/ /\ MirrorLeave("err", rx)
          /\ UNCHANGED <<tree_vars, backend, store, senders, next_task_id, threads, issued, ret,
                         mode, files, config, events, active_tasks, active_size, results,
                         sizes, next_index, task_of, received, disk>>
       \/ LET data == FileData(files[next_index + 1])
              data_size == Len(data)
          IN  /\ RunTask("upload", None, data)
              /\ active_tasks' = Put(active_tasks, next_task_id, next_index)
              /\ active_size' = active_size + data_size
              /\ sizes' = [sizes EXCEPT ![next_index + 1] = Some(data_size)]
              /\ task_of' = Put(task_of, next_index, next_task_id)
              /\ next_index' = next_index + 1
              /\ UNCHANGED <<tree_vars, backend, store, rx, ret, mode, files, config, pc,
                             events, results, received, disk>>

\* One turn of the inner while loop of pull.
PullAdmit ==
    /\ pc = "loop" /\ mode = "pull" /\ CanAdmit
    /\ LET file == files[next_index + 1]
           data_size == file.size
       IN  /\ RunTask("download", Some(file.key), <<>>)
           /\ active_tasks' = Put(active_tasks, next_task_id, next_index)
           /\ active_size' = active_size + data_size
           /\ task_of' = Put(task_of, next_index, next_task_id)
           /\ next_index' = next_index + 1
           /\ UNCHANGED <<tree_vars, backend, store, rx, ret, mode, files, config, pc, events,
                          results, sizes, received, disk>>

\* The success arm of push's match, for an event already taken from the channel
\* (chs is the channels after the recv).
PushSuccess(event, chs) ==
    IF event.id \notin DOMAIN active_tasks
    THEN /\ MirrorLeave("panic", chs)
         /\ UNCHANGED <<active_tasks, active_size, results, disk>>
    ELSE LET index == LookupIndex(active_tasks, event.id) IN
         IF sizes[index + 1] = None \/ sizes[index + 1][1] > active_size
         THEN /\ MirrorLeave("panic", chs)
              /\ UNCHANGED <<active_tasks, active_size, results, disk>>
         ELSE /\ results' = [results EXCEPT ![index + 1] = Some(<<"Ok", event.content[2]>>)]
              /\ active_size' = SizeAfterDone(active_size, sizes[index + 1][1])
              /\ active_tasks' = Remove(active_tasks, event.id)
              /\ rx' = chs
              /\ UNCHANGED <<pc, disk>>

\* The success arm of pull's match; std::fs::write(file_path, bytes)? may fail,
\* and fails when the directory of file_path does not exist.
PullSuccess(event, chs) ==
    IF event.id \notin DOMAIN active_tasks
    THEN /\ MirrorLeave("panic", chs)
         /\ UNCHANGED <<active_tasks, active_size, results, disk>>
    ELSE LET index == LookupIndex(active_tasks, event.id)
             file == files[index + 1]
         IN  \/ /\ MirrorLeave("err", chs)
                /\ UNCHANGED <<active_tasks, active_size, results, disk>>
             \/ IF file.size > active_size
                THEN /\ MirrorLeave("panic", chs)
                     /\ UNCHANGED <<active_tasks, active_size, results, disk>>
                ELSE /\ ParentPath(file.path) \in dirs
                     /\ file.path \notin dirs
                     /\ disk' = Put(disk, file.path, event.content[2])
                     /\ active_size' = SizeAfterDone(active_size, file.size)
                     /\ active_tasks' = Remove(active_tasks, event.id)
                     /\ rx' = chs
                     /\ UNCHANGED <<pc, results>>

\* An Error arm that goes on with the loop.
ErrorArmContinue(event, chs) ==
    /\ rx' = chs
    /\ UNCHANGED <<pc, active_tasks, active_size, results, disk>>

\* EventContent::Error(e) => anyhow::bail!(e)
ErrorArm(event, chs) ==
    /\ MirrorLeave("err", chs)
    /\ UNCHANGED <<active_tasks, active_size, results, disk>>

\* The drain phase: the inner loop has ended, a task is outstanding, and
\* events.recv() returns the next event.
MirrorDrain ==
    /\ pc = "loop" /\ ~CanAdmit
    /\ DOMAIN active_tasks # {}
    /\ rx[events].queue # <<>>
    /\ LET event == Head(rx[events].queue)
           chs == [rx EXCEPT ![events].queue = Tail(@)]
           expected == IF mode = "push" THEN "UploadSuccess" ELSE "DownloadSuccess"
       IN  /\ received' = Append(received, event)
           /\ CASE event.content[1] = "Error" -> ErrorArm(event, chs)
                [] event.content[1] = expected ->
                     IF mode = "push" THEN PushSuccess(event, chs)
                                      ELSE PullSuccess(event, chs)
                [] OTHER ->
                     /\ MirrorLeave("panic", chs)
                     /\ UNCHANGED <<active_tasks, active_size, results, disk>>
    /\ UNCHANGED <<tree_vars, backend, store, senders, next_task_id, threads, issued, ret, mode,
                   files, config, events, sizes, next_index, task_of>>

\* The outer loop's condition is false: Ok(results) / Ok(()).
MirrorReturnOk ==
    /\ pc = "loop"
    /\ ~(next_index < NumFiles \/ DOMAIN active_tasks # {})
    /\ MirrorLeave("ok", rx)
    /\ UNCHANGED <<tree_vars, backend, store, senders, next_task_id, threads, issued, ret, mode,
                   files, config, events, active_tasks, active_size, results, sizes,
                   next_index, task_of, received, disk>>

\* Work remains, nothing is admitted and nothing is outstanding: the outer loop
\* turns without effect (active_tasks_limit = 0).
MirrorSpin ==
    /\ pc = "loop" /\ ~CanAdmit
    /\ DOMAIN active_tasks = {}
    /\ next_index < NumFiles
    /\ UNCHANGED vars

\* ----------------------------------------------------- Spec: push and pull
FileLists ==
    UNION {[1..n -> [path : {<<"kek">>}, size : 0..MaxSize]] : n \in 0..MaxFiles}

\* Paths of one list are distinct: the file at index i-1 is kek<i>, in the prefix
\* directory itself. A path is the sequence of its components.
Numbered(fs) ==
    [i \in DOMAIN fs |-> [path |-> <<"kek" \o ToString(i)>>, size |-> fs[i].size]]

\* The input of a pull names the blob key of each file.
Keyed(b, fs) ==
    [i \in DOMAIN fs |-> [path |-> fs[i].path, size |-> fs[i].size, key |-> FileKey(b, fs[i])]]

Configs == [active_tasks_limit : 0..MaxFiles, active_size_limit : 0..(MaxSize + 1)]

\* The remote a pull starts from holds the blobs its input names.
StoreOf(b, fs) ==
    LET keys == {FileKey(b, fs[i]) : i \in DOMAIN fs}
    IN  [k \in keys |-> [sealed |-> k[3], auth |-> TRUE]]

Init ==
    /\ backend \in Backends
    /\ mode \in {"push", "pull"}
    /\ \E fs \in FileLists :
          files = IF mode = "pull" THEN Keyed(backend, Numbered(fs)) ELSE Numbered(fs)
    /\ config \in Configs
    /\ store = IF mode = "pull" THEN StoreOf(backend, files) ELSE EmptyFn
    /\ senders = <<>>
    /\ next_task_id = 0
    /\ rx = <<>>
    /\ threads = EmptyFn
    /\ issued = <<>>
    /\ ret = None
    /\ pc = "init"
    /\ events = 0
    /\ active_tasks = EmptyFn
    /\ active_size = 0
    /\ results = [i \in 1..Len(files) |-> None]
    /\ sizes = [i \in 1..Len(files) |-> None]
    /\ next_index = 0
    /\ task_of = EmptyFn
    /\ received = <<>>
    /\ disk = EmptyFn
    /\ manifest_a = ManifestNew
    /\ manifest_b = ManifestNew
    /\ applied = None
    /\ dirs = {<<>>}
    /\ dot_har = [fetched_manifest |-> None, backup |-> None]
    /\ cwd = <<>>
    /\ cmd = None
    /\ process = [hook |-> "default", inside |-> {}, hooked |-> {}, exit |-> None]

Next ==
    \/ MirrorEnter
    \/ PushAdmit
    \/ PullAdmit
    \/ MirrorDrain
    \/ MirrorReturnOk
    \/ MirrorSpin
    \/ TaskStep

Spec == Init /\ [][Next]_vars

\* --------------------------------------------- properties of push and pull
InFlight == DOMAIN active_tasks

\* The size the loop recorded for the file at index i: sizes[i] in push,
\* files[i].file_size in pull.
RecordedSize(i) == IF mode = "push" THEN sizes[i + 1][1] ELSE files[i + 1].size

\* The index most recently admitted among those in flight.
NewestInFlight == CHOOSE i \in Range(active_tasks) : \A j \in Range(active_tasks) : j <= i

\* The event recv() returned for task id.
EventOf(id) == CHOOSE e \in Range(received) : e.id = id

\* recv() has returned an Error event.
GotError == received # <<>> /\ Last(received).content[1] = "Error"

\* C1: at every point of the transfer loop of push and pull the number of
\* in-flight tasks is at most config.active_tasks_limit.
C1_TasksWithinLimit == Cardinality(InFlight) <= config.active_tasks_limit

\* The task limit alone withholds the next file.
C1_Witness ==
    /\ pc = "loop" /\ next_index < NumFiles
    /\ config.active_tasks_limit >= 1
    /\ Cardinality(InFlight) = config.active_tasks_limit
    /\ active_size < config.active_size_limit

\* C2, as stated: whenever two or more tasks are in flight, active_size is at
\* most config.active_size_limit.
C2_SizeWithinLimit == Cardinality(InFlight) >= 2 => active_size <= config.active_size_limit

\* C2, as the code has it: whenever two or more tasks are in flight, active_size
\* without the file admitted last among them is below config.active_size_limit
\* (the limit is tested before a file is added, never after).
C2_SizeBeforeNewest ==
    Cardinality(InFlight) >= 2 =>
        active_size - RecordedSize(NewestInFlight) < config.active_size_limit

\* Two tasks in flight and active_size above the limit.
C2_Witness ==
    /\ pc = "loop" /\ Cardinality(InFlight) >= 2
    /\ active_size > config.active_size_limit

\* C3: active_size is the sum of the recorded sizes of the tasks in
\* active_tasks; it is never negative, the subtraction on completion never
\* underflows (no panic), and it is zero when the loop returns Ok.
C3_SizeIsSum ==
    /\ active_size = SumOver([t \in InFlight |-> RecordedSize(active_tasks[t])], InFlight)
    /\ active_size >= 0
    /\ pc # "panic"
    /\ pc = "ok" => active_size = 0

\* One file has completed and been subtracted, another is still in flight.
C3_Witness ==
    /\ pc = "loop" /\ received # <<>>
    /\ Cardinality(InFlight) = 1 /\ active_size > 0
    /\ \E i \in 1..NumFiles : i - 1 \notin Range(active_tasks) /\ files[i].size > 0

\* C4: no task is submitted while active_size >= active_size_limit, unless
\* active_tasks is empty at that moment.
C4_AdmitBelowLimit ==
    [][next_task_id' # next_task_id =>
          (active_size < config.active_size_limit \/ InFlight = {})]_vars

\* The size limit alone withholds the next file.
C4_Witness ==
    /\ pc = "loop" /\ next_index < NumFiles
    /\ InFlight # {} /\ active_size >= config.active_size_limit
    /\ Cardinality(InFlight) < config.active_tasks_limit

\* C5: when push returns Ok, results[i] is Some(Ok(k)) with k the key of the
\* UploadSuccess event of the task submitted for paths[i], which is the key of
\* that file's contents; when pull returns Ok, the path of files[i] holds the
\* bytes of the DownloadSuccess event of the task submitted for files[i], which
\* are that file's bytes, and no other path was written.
C5_ResultsByTaskId ==
    pc = "ok" =>
        /\ mode = "push" =>
              \A i \in 0..(NumFiles - 1) :
                  /\ EventOf(task_of[i]).content[1] = "UploadSuccess"
                  /\ results[i + 1] = Some(<<"Ok", EventOf(task_of[i]).content[2]>>)
                  /\ results[i + 1] = Some(<<"Ok", FileKey(backend, files[i + 1])>>)
        /\ mode = "pull" =>
              /\ DOMAIN disk = {files[i].path : i \in 1..NumFiles}
              /\ \A i \in 0..(NumFiles - 1) :
                    /\ EventOf(task_of[i]).content[1] = "DownloadSuccess"
                    /\ disk[files[i + 1].path] = EventOf(task_of[i]).content[2]
                    /\ disk[files[i + 1].path] = FileData(files[i + 1])

\* Ok after the second file's task completed before the first file's.
C5_Witness ==
    /\ pc = "ok" /\ NumFiles = 2
    /\ files[1].size # files[2].size
    /\ Len(received) = 2 /\ received[1].id > received[2].id

\* C6: once recv() has returned an Error event the call has returned it (no
\* further turn of the loop): its receiver is dropped, no task is submitted
\* and nothing is received afterwards; every thread still running can take
\* its next step (it is never blocked by the dropped receiver), and its steps
\* leave the returned error as it is.
C6_ErrorReturnsAtOnce ==
    /\ [](GotError =>
            /\ pc = "err"
            /\ ~rx[events].alive
            /\ \A t \in DOMAIN threads : ENABLED (TaskRun(t) \/ TaskSend(t)))
    /\ [][GotError =>
            /\ pc' = "err"
            /\ next_task_id' = next_task_id /\ next_index' = next_index
            /\ received' = received
            /\ rx'[events] = rx[events]]_vars

\* The Error was returned while another task's thread is about to send.
C6_Witness ==
    /\ GotError /\ pc = "err"
    /\ \E t \in DOMAIN threads :
          threads[t].at = "send" /\ events \in Range(threads[t].snapshot)


\* ------------------------------------------------- one handle's client
\* blob_storage.events()
ClientEvents(limit) ==
    /\ Len(rx) < limit
    /\ Subscribe
    /\ UNCHANGED <<tree_vars, backend, store, next_task_id, threads, issued, ret, mirror_vars>>

\* The client drops a receiver it holds.
ClientDrop(r) ==
    /\ r \in DOMAIN rx
    /\ rx[r].alive
    /\ rx' = DropReceiver(rx, r)
    /\ UNCHANGED <<tree_vars, backend, store, senders, next_task_id, threads, issued, ret, mirror_vars>>

\* upload / download / exists: build the task, run_task it.
ClientSubmit(limit, kind, key, data) ==
    /\ next_task_id < limit
    /\ RunTask(kind, key, data)
    /\ UNCHANGED <<tree_vars, backend, store, rx, ret, mirror_vars>>

SuccessKind(kind) ==
    CASE kind = "upload" -> "UploadSuccess"
      [] kind = "download" -> "DownloadSuccess"
      [] OTHER -> "ExistsSuccess"

\* A loop that takes whatever the first event carries as the Ok value.
BlockingResultAlwaysOk(kind, evs) ==
    IF evs = <<>> THEN <<"panic", "Did not find event">>
    ELSE <<"Ok", evs[1].content[2]>>

\* The loop over the collected events of a blocking call: the first event decides.
BlockingResult(kind, evs) ==
    IF evs = <<>> THEN <<"panic", "Did not find event">>
    ELSE LET c == evs[1].content
         IN  CASE c[1] = SuccessKind(kind) -> <<"Ok", c[2]>>
               [] c[1] = "Error" -> <<"Err", c[2]>>
               [] OTHER -> <<"panic", "todo">>

\* A blocking call made of events(), the async submit and recv(), as the
\* default methods of the BlobStorage trait do it.
BlockingCallViaChannel(kind, key, data) ==
    /\ \E fault \in Faults(backend, kind) :
          LET res == RunBody(backend, store, kind, key, data, fault)
              mine == Len(rx) + 1
              snapshot == Append(clean_senders(rx, senders), mine)
              sent == AsyncSendAll(Append(rx, NewChannel), snapshot, next_task_id, res.events)
              evs == sent[mine].queue
          IN  /\ store' = res.store
              /\ ret' = Some([kind |-> kind, key |-> key, data |-> data, fault |-> fault,
                              saw |-> Seen(store, [kind |-> kind, key |-> key]),
                              live |-> LiveRx,
                              events |-> evs, result |-> BlockingResult(kind, evs)])
              /\ rx' = DropReceiver(sent, mine)
              /\ senders' = snapshot
              /\ next_task_id' = AllocTaskId(next_task_id)
              /\ issued' = Append(issued, next_task_id)
    /\ UNCHANGED <<tree_vars, backend, threads, mirror_vars>>

\* upload_blocking / download_blocking / exists_blocking: the task runs inline
\* with a SyncComm.
BlockingCall(kind, key, data) ==
    /\ \E fault \in Faults(backend, kind) :
          LET res == RunBody(backend, store, kind, key, data, fault)
              evs == SyncEvents(res.events)
          IN  /\ store' = res.store
              /\ ret' = Some([kind |-> kind, key |-> key, data |-> data, fault |-> fault,
                              saw |-> Seen(store, [kind |-> kind, key |-> key]),
                              live |-> LiveRx,
                              events |-> evs, result |-> BlockingResult(kind, evs)])
    /\ UNCHANGED <<tree_vars, backend, senders, next_task_id, rx, threads, issued, mirror_vars>>

\* The calls a client makes, as (kind, key, data).
Call(kind, key, data) == [kind |-> kind, key |-> key, data |-> data]

\* SpecStorage and SpecChannels: exists of the manifest key.
ExistsCalls == {Call("exists", Some(MANIFEST_KEY), <<>>)}

\* SpecTasks: every kind of call on the manifest key, and a content upload.
TaskCalls ==
    {Call("upload", Some(MANIFEST_KEY), Payload(1)),
     Call("upload", None, Payload(2)),
     Call("download", Some(MANIFEST_KEY), <<>>),
     Call("exists", Some(MANIFEST_KEY), <<>>)}

\* The remote the handle is opened on: empty, or holding a manifest blob, whole or torn.
InitialStores ==
    {EmptyFn,
     [k \in {MANIFEST_KEY} |-> [sealed |-> Payload(1), auth |-> TRUE]],
     [k \in {MANIFEST_KEY} |-> TornBlob]}

InitStorage ==
    /\ backend \in Backends
    /\ store \in InitialStores
    /\ senders = <<>>
    /\ next_task_id = 0
    /\ rx = <<>>
    /\ threads = EmptyFn
    /\ issued = <<>>
    /\ ret = None
    /\ mode = "none"
    /\ files = <<>>
    /\ config = [active_tasks_limit |-> 0, active_size_limit |-> 0]
    /\ pc = "idle"
    /\ events = 0
    /\ active_tasks = EmptyFn
    /\ active_size = 0
    /\ results = <<>>
    /\ sizes = <<>>
    /\ next_index = 0
    /\ task_of = EmptyFn
    /\ received = <<>>
    /\ disk = EmptyFn
    /\ manifest_a = ManifestNew
    /\ manifest_b = ManifestNew
    /\ applied = None
    /\ dirs = {<<>>}
    /\ dot_har = [fetched_manifest |-> None, backup |-> None]
    /\ cwd = <<>>
    /\ cmd = None
    /\ process = [hook |-> "default", inside |-> {}, hooked |-> {}, exit |-> None]

NextStorage ==
    \/ ClientEvents(MaxRx)
    \/ \E c \in ExistsCalls : ClientSubmit(MaxTasks, c.kind, c.key, c.data)
    \/ \E c \in ExistsCalls : BlockingCall(c.kind, c.key, c.data)
    \/ TaskStep

SpecStorage == InitStorage /\ [][NextStorage]_vars

\* C7: the TaskIds returned by upload, download and exists on one handle are
\* strictly increasing in submission order (so each differs from all before
\* it), whatever subscriptions and blocking calls come in between.
C7_TaskIdsIncrease ==
    \A i, j \in DOMAIN issued : i < j => issued[i] < issued[j]

\* Two submits, with a subscription and a blocking call made on the way.
C7_Witness ==
    /\ Len(issued) >= 2 /\ rx # <<>>
    /\ ret # None /\ ret[1].live # {}

NextChannels ==
    \/ ClientEvents(MaxRx)
    \/ \E r \in 1..MaxRx : ClientDrop(r)
    \/ \E c \in ExistsCalls : ClientSubmit(MaxRuns, c.kind, c.key, c.data)
    \/ TaskStep

SpecChannels == InitStorage /\ [][NextChannels]_vars

\* A spawned thread is scheduled: it eventually runs, and eventually sends.
FairChannels ==
    SpecChannels /\ \A t \in TaskIds : WF_vars(TaskRun(t)) /\ WF_vars(TaskSend(t))

\* The running threads that hold a clone of the sender of channel r (the
\* handle holds one while r is in senders). disconnected() reads the one flag
\* the clones share.
CloneThreads(r) == {t \in DOMAIN threads : r \in Range(threads[t].snapshot)}

\* C12: disconnected() is false on every clone of a channel's sender while
\* the receiver is alive, true on every clone once the receiver has been
\* dropped, and once true it never returns to false.
C12_DisconnectFollowsDrop ==
    /\ [](\A r \in DOMAIN rx : Disconnected(rx, r) <=> ~rx[r].alive)
    /\ [][\A r \in DOMAIN rx : Disconnected(rx, r) => Disconnected(rx', r)]_vars

\* A receiver was dropped while the handle and a running thread each hold a
\* clone of its sender.
C12_Witness ==
    \E r \in DOMAIN rx :
        /\ ~rx[r].alive /\ Disconnected(rx, r)
        /\ r \in Range(senders)
        /\ CloneThreads(r) # {}

\* Receiver r holds an event of task t.
Holds(r, t) == \E i \in DOMAIN rx[r].queue : rx[r].queue[i].id = t

\* C8: after an async submit, every receiver obtained from events() before it
\* and alive at the submit eventually holds an event carrying the task's id,
\* unless the receiver itself is dropped first; other subscribers being
\* dropped does not prevent it.
C8_LiveSubscribersReceive ==
    \A t \in 0..(MaxRuns - 1) : \A r \in 1..MaxRx :
        (t \in DOMAIN threads /\ r \in threads[t].live)
            ~> (r \in DOMAIN rx /\ (~rx[r].alive \/ Holds(r, t)))

\* A live receiver holds the event of a task submitted after another
\* subscriber was dropped and pruned.
C8_Witness ==
    \E r, d \in DOMAIN rx :
        /\ rx[r].alive /\ ~rx[d].alive
        /\ d \notin Range(senders)
        /\ Holds(r, 0)

NextTasks ==
    \/ ClientEvents(1)
    \/ \E c \in TaskCalls : ClientSubmit(MaxRuns, c.kind, c.key, c.data)
    \/ \E c \in TaskCalls : BlockingCall(c.kind, c.key, c.data)
    \/ TaskStep

SpecTasks == InitStorage /\ [][NextTasks]_vars

\* The run met a failure: an injected fault of encryption, I/O or HTTP, or a
\* download whose key holds no blob or a blob that does not decrypt.
RunFailed(kind, fault, saw) ==
    \/ fault # "none"
    \/ kind = "download" /\ (saw = None \/ decrypt_blob(saw[1])[1] = "Err")

\* Exactly one event content, Error on failure and the kind's success otherwise.
OneTerminal(kind, fault, saw, contents) ==
    /\ Len(contents) = 1
    /\ contents[1][1] = IF RunFailed(kind, fault, saw) THEN "Error" ELSE SuccessKind(kind)

SameRun(t) ==
    /\ ret # None
    /\ ret[1].kind = threads[t].kind /\ ret[1].key = threads[t].key
    /\ ret[1].data = threads[t].data
    /\ ret[1].fault = threads[t].fault /\ ret[1].saw = threads[t].saw

\* C11: for the same arguments, the same blob under the key and the same
\* fault of the environment, a blocking call returns Ok(v) exactly when the
\* async task emits the success event of its kind carrying v, and Err(m)
\* exactly when the async task emits Error(m); it never panics.
C11_BlockingMatchesAsync ==
    \A t \in DOMAIN threads :
        (threads[t].at = "send" /\ SameRun(t)) =>
            LET content == threads[t].out[1]
                result == ret[1].result
            IN  /\ result[1] \in {"Ok", "Err"}
                /\ result[1] = "Ok" <=> content[1] = SuccessKind(threads[t].kind)
                /\ result[1] = "Err" <=> content[1] = "Error"
                /\ result[2] = content[2]

\* A blocking download returned Err(m) and the async download of the same key,
\* on the same missing blob, is about to emit an Error.
C11_Witness ==
    \E t \in DOMAIN threads :
        /\ threads[t].at = "send" /\ SameRun(t)
        /\ threads[t].kind = "download" /\ ret[1].result[1] = "Err"

\* C10: a blocking call delivers no event to any receiver, and leaves the
\* sender list, the next task id, the ids issued and the running threads as
\* they were; the events it collected carry SyncComm's id 0.
C10_BlockingLeavesChannels ==
    [][ret' # ret =>
          /\ UNCHANGED <<senders, next_task_id, rx, threads, issued>>
          /\ \A i \in DOMAIN ret'[1].events : ret'[1].events[i].id = 0]_vars

\* A blocking call returned while a receiver was subscribed and an async
\* task was running; the receiver holds nothing.
C10_Witness ==
    /\ ret # None /\ ret[1].live # {}
    /\ threads # EmptyFn
    /\ \A r \in ret[1].live : rx[r].alive /\ rx[r].queue = <<>> /\ r \in Range(senders)

\* ------------------------------------- upload, then download what came back
\* The client of tests/blob_storage.rs, for any payloads: it subscribes,
\* uploads payloads without a key (each once), receives, and downloads the
\* key an UploadSuccess gave it.
Payloads == {Payload(n) : n \in 1..MaxSize}

\* The client's requests, as keys of task_of: the upload of a payload of n
\* bytes, and the download of that payload's key.
UploadOf(data) == Len(data)
DownloadOf(key) == 0 - Len(key[3])

TripUpload ==
    \E data \in Payloads :
        /\ rx # <<>>
        /\ UploadOf(data) \notin DOMAIN task_of
        /\ next_task_id < MaxTasks
        /\ RunTask("upload", None, data)
        /\ task_of' = Put(task_of, UploadOf(data), next_task_id)
        /\ UNCHANGED <<tree_vars, backend, store, rx, ret, mode, files, config, pc, events,
                       active_tasks, active_size, results, sizes, next_index, received, disk>>

\* events.recv()
TripRecv ==
    /\ rx # <<>> /\ rx[1].queue # <<>>
    /\ received' = Append(received, Head(rx[1].queue))
    /\ rx' = [rx EXCEPT ![1].queue = Tail(@)]
    /\ UNCHANGED <<tree_vars, backend, store, senders, next_task_id, threads, issued, ret, mode,
                   files, config, pc, events, active_tasks, active_size, results, sizes,
                   next_index, task_of, disk>>

\* The keys the client has been given and has not asked for yet.
KeysReceived ==
    {e.content[2] : e \in {x \in Range(received) : x.content[1] = "UploadSuccess"}}

TripDownload ==
    \E key \in KeysReceived :
        /\ DownloadOf(key) \notin DOMAIN task_of
        /\ next_task_id < MaxTasks
        /\ RunTask("download", Some(key), <<>>)
        /\ task_of' = Put(task_of, DownloadOf(key), next_task_id)
        /\ UNCHANGED <<tree_vars, backend, store, rx, ret, mode, files, config, pc, events,
                       active_tasks, active_size, results, sizes, next_index, received, disk>>

InitTrip ==
    /\ InitStorage
    /\ store = EmptyFn

NextTrip ==
    \/ ClientEvents(1)
    \/ TripUpload
    \/ TripRecv
    \/ TripDownload
    \/ TaskStep

SpecTrip == InitTrip /\ [][NextTrip]_vars

\* The content the client received for task id.
Got(id) == {e.content : e \in {x \in Range(received) : x.id = id}}

\* C13: for every payload p, the event of upload(p, None) that met no fault
\* is UploadSuccess(k) with k the content key of p, and the event of a
\* download(k) submitted after that event, meeting no fault, is
\* DownloadSuccess(p): the bytes equal p. (Checked on both backends.)
C13_UploadThenDownload ==
    \A t \in DOMAIN threads :
        threads[t].at = "send" /\ threads[t].fault = "none" =>
            /\ threads[t].kind = "upload" =>
                  threads[t].out =
                      <<UploadSuccess(get_hash_name(Scope(backend), threads[t].data))>>
            /\ threads[t].kind = "download" =>
                  \E p \in Payloads :
                      /\ UploadOf(p) \in DOMAIN task_of
                      /\ UploadSuccess(threads[t].key[1]) \in Got(task_of[UploadOf(p)])
                      /\ threads[t].out = <<DownloadSuccess(p)>>

\* On the local directory, the download of a received key has the payload's
\* bytes ready to send.
C13_Witness ==
    /\ backend = "local"
    /\ \E t \in DOMAIN threads : \E p \in Payloads :
          /\ threads[t].at = "send" /\ threads[t].kind = "download"
          /\ UploadOf(p) \in DOMAIN task_of
          /\ UploadSuccess(threads[t].key[1]) \in Got(task_of[UploadOf(p)])
          /\ threads[t].out = <<DownloadSuccess(p)>> /\ Len(p) = MaxSize

\* ------------------------------------------ Mirror: the manifest on the remote
\* A blocking call as a function of the store: what it returns, and the store
\* it leaves.
Blocking(st, kind, key, data, fault) ==
    LET res == RunBody(backend, st, kind, key, data, fault)
    IN  [result |-> BlockingResult(kind, SyncEvents(res.events)), store |-> res.store]

\* The blob under the manifest key, if any.
ManifestBlobOf(st) == IF MANIFEST_KEY \in DOMAIN st THEN Some(st[MANIFEST_KEY]) ELSE None

\* History of a Mirror call: its name and argument, the fault it met, the blob
\* under the manifest key before it, and what it returned.
MirrorCall(name, data, fault, result) ==
    Some([kind |-> name, data |-> data, fault |-> fault,
          before |-> ManifestBlobOf(store), result |-> result])

\* An init that uploads without asking whether a manifest exists.
MirrorInitBlind ==
    /\ \E fault \in Faults(backend, "upload") :
          LET up == Blocking(store, "upload", Some(MANIFEST_KEY), to_bytes(ManifestNew), fault)
          IN  /\ store' = up.store
              /\ ret' = MirrorCall("init", <<>>, fault,
                                   IF up.result[1] = "Ok" THEN <<"Ok", <<>>>> ELSE up.result)
    /\ UNCHANGED <<tree_vars, backend, senders, next_task_id, rx, threads, issued, mirror_vars>>

\* Mirror::init
MirrorInit ==
    /\ \E f1 \in Faults(backend, "exists") :
          LET ex == Blocking(store, "exists", Some(MANIFEST_KEY), <<>>, f1)
          IN  IF ex.result[1] # "Ok"
              THEN /\ store' = store
                   /\ ret' = MirrorCall("init", <<>>, f1, ex.result)
              ELSE IF ex.result[2]
              THEN /\ store' = store
                   /\ ret' = MirrorCall("init", <<>>, f1,
                                        <<"Err", "Manifest already exists in remote">>)
              ELSE \E f2 \in Faults(backend, "upload") :
                     LET up == Blocking(store, "upload", Some(MANIFEST_KEY),
                                        to_bytes(ManifestNew), f2)
                     IN  /\ store' = up.store
                         /\ ret' = MirrorCall("init", <<>>, f2,
                                              IF up.result[1] = "Ok" THEN <<"Ok", <<>>>>
                                                                     ELSE up.result)
    /\ UNCHANGED <<tree_vars, backend, senders, next_task_id, rx, threads, issued, mirror_vars>>

\* Mirror::get_manifest_blob
GetManifestBlob ==
    /\ \E fault \in Faults(backend, "download") :
          LET down == Blocking(store, "download", Some(MANIFEST_KEY), <<>>, fault)
          IN  ret' = MirrorCall("get_manifest_blob", <<>>, fault, down.result)
    /\ UNCHANGED <<tree_vars, backend, store, senders, next_task_id, rx, threads, issued, mirror_vars>>

\* Mirror::push_manifest_blob
PushManifestBlob(data) ==
    /\ \E fault \in Faults(backend, "upload") :
          LET up == Blocking(store, "upload", Some(MANIFEST_KEY), data, fault)
          IN  /\ store' = up.store
              /\ ret' = MirrorCall("push_manifest_blob", data, fault,
                                   IF up.result[1] = "Ok" THEN <<"Ok", <<>>>> ELSE up.result)
    /\ UNCHANGED <<tree_vars, backend, senders, next_task_id, rx, threads, issued, mirror_vars>>

\* The manifests a client pushes: the empty one, and one with a file in the root.
OneFileManifest ==
    [root |-> 0,
     entries |-> <<Directory("ROOT", [n \in {"felt"} |-> 1]),
                   File("felt", get_hash_name("dir", Payload(1)), 1)>>]

ManifestBlobs == {to_bytes(ManifestNew), to_bytes(OneFileManifest)}

InitMirror ==
    /\ InitStorage
    /\ store = EmptyFn

NextMirror ==
    \/ MirrorInit
    \/ GetManifestBlob
    \/ \E data \in ManifestBlobs : PushManifestBlob(data)
    \/ \E n \in 1..MaxSize : ClientSubmit(MaxRuns, "upload", None, Payload(n))
    \/ TaskStep

SpecMirror == InitMirror /\ [][NextMirror]_vars

\* The Mirror call that ended last, if it is the named one.
LastCall(name) == ret # None /\ ret[1].kind = name

\* What the blob under the manifest key decrypts to.
ManifestPlain(st) ==
    IF MANIFEST_KEY \in DOMAIN st THEN decrypt_blob(st[MANIFEST_KEY])
                                  ELSE <<"Err", "no manifest">>

PushedHolds ==
    \A b \in ManifestBlobs :
        (LastCall("push_manifest_blob") /\ ret[1].data = b /\ ret[1].result[1] = "Ok")
            => ManifestPlain(store) = <<"Ok", b>>

OnlyInitAndPushWrite ==
    (ret' = ret \/ ret'[1].kind = "get_manifest_blob")
        => ManifestBlobOf(store') = ManifestBlobOf(store)

GetReturnsStored ==
    (ret' # ret /\ ret'[1].kind = "get_manifest_blob")
        => \A b \in ManifestBlobs :
              ManifestPlain(store) = <<"Ok", b>>
                  => /\ ret'[1].fault = "none" => ret'[1].result = <<"Ok", b>>
                     /\ ret'[1].result[1] = "Ok" => ret'[1].result = <<"Ok", b>>

\* C14: once push_manifest_blob(b) has returned Ok, the blob under "manifest"
\* decrypts to b, whatever init, push_manifest_blob and content uploads came
\* before; no step other than an init or a push_manifest_blob (a content upload
\* in particular) changes the blob under "manifest"; and a get_manifest_blob
\* on a store whose manifest decrypts to b returns b, or fails when the read
\* itself fails, never another value.
C14_PushThenGet ==
    /\ []PushedHolds
    /\ [][OnlyInitAndPushWrite]_vars
    /\ [][GetReturnsStored]_vars

\* A get_manifest_blob returned the one-file manifest, which only a push stores,
\* on a remote that also holds an uploaded content blob.
C14_Witness ==
    /\ LastCall("get_manifest_blob")
    /\ ret[1].result = <<"Ok", to_bytes(OneFileManifest)>>
    /\ \E key \in DOMAIN store : key # MANIFEST_KEY

InitStep == ret' # ret /\ ret'[1].kind = "init"

InitOnFresh ==
    (InitStep /\ MANIFEST_KEY \notin DOMAIN store)
        => /\ ret'[1].fault = "none" => ret'[1].result[1] = "Ok"
           /\ ret'[1].result[1] = "Ok"
                => ManifestPlain(store') = <<"Ok", to_bytes(ManifestNew)>>

InitOnInitialized ==
    (InitStep /\ MANIFEST_KEY \in DOMAIN store)
        => /\ ret'[1].result[1] = "Err"
           /\ ret'[1].fault = "none"
                => ret'[1].result = <<"Err", "Manifest already exists in remote">>
           /\ store' = store

Names == {"felt", "dango", ".har"}

get_entry(manifest, id) == manifest.entries[id + 1]

EntryIds(manifest) == 0..(Len(manifest.entries) - 1)

try_directory_ref(entry) ==
    IF entry.kind = "dir" THEN <<"Ok", entry>>
    ELSE <<"Err", "Tried to force enum type but it's the wrong one">>

\* An add that does not look for a child of the same name.
addUnchecked(manifest, entry, parent_dir) ==
    LET parent == try_directory_ref(get_entry(manifest, parent_dir))
        entry_id == Len(manifest.entries)
    IN  IF parent[1] = "Err" THEN [result |-> parent, manifest |-> manifest]
        ELSE [result |-> <<"Ok", entry_id>>,
              manifest |->
                  [manifest EXCEPT !.entries =
                      Append([@ EXCEPT ![parent_dir + 1].entries = Put(@, entry.name, entry_id)],
                             entry)]]

\* An add that forgets what the parent held.
addForgetful(manifest, entry, parent_dir) ==
    LET parent == try_directory_ref(get_entry(manifest, parent_dir))
        entry_id == Len(manifest.entries)
    IN  IF parent[1] = "Err" THEN [result |-> parent, manifest |-> manifest]
        ELSE [result |-> <<"Ok", entry_id>>,
              manifest |->
                  [manifest EXCEPT !.entries =
                      Append([@ EXCEPT ![parent_dir + 1].entries = Put(EmptyFn, entry.name, entry_id)],
                             entry)]]

\* Manifest::add: the outcome and the manifest it leaves.
add(manifest, entry, parent_dir) ==
    LET parent == try_directory_ref(get_entry(manifest, parent_dir))
        entry_id == Len(manifest.entries)
    IN  IF parent[1] = "Err" THEN [result |-> parent, manifest |-> manifest]
        ELSE IF entry.name \in DOMAIN parent[2].entries
        THEN [result |-> <<"Err", "Entry with same name exists">>, manifest |-> manifest]
        ELSE [result |-> <<"Ok", entry_id>>,
              manifest |->
                  [manifest EXCEPT !.entries =
                      Append([@ EXCEPT ![parent_dir + 1].entries = Put(@, entry.name, entry_id)],
                             entry)]]

\* A path is the sequence of its segments; "/" first is the root, "." and ".."
\* the other segments that are not normal. Path::components drops every "."
\* that is not the first segment.
components(path) ==
    IF path = <<>> THEN <<>>
    ELSE <<Head(path)>> \o SelectSeq(Tail(path), LAMBDA c : c # ".")

RECURSIVE join_walk(_, _, _, _)
join_walk(manifest, cd, path_add, last_entry_id) ==
    IF path_add = <<>> THEN <<"Ok", last_entry_id>>
    ELSE LET component == Head(path_add)
             dir == get_entry(manifest, cd)
         IN  IF component = "/"
             THEN <<"Err", "Should not have root component in path_add">>
             ELSE IF component \in {".", ".."}
             THEN <<"Err", "Cannot handle path components other than root/normal">>
             ELSE IF component \notin DOMAIN dir.entries
             THEN <<"Err", "Entry not found in cd">>
             ELSE LET entry_id == dir.entries[component]
                  IN  join_walk(manifest,
                                IF get_entry(manifest, entry_id).kind = "dir"
                                    THEN entry_id ELSE cd,
                                Tail(path_add), entry_id)

\* A walk that stops at the first component.
join_and_get_entry_idFirst(manifest, base, path_add) ==
    IF path_add = <<>> THEN <<"Ok", base>>
    ELSE join_walk(manifest, base, <<Head(path_add)>>, base)

\* Manifest::join_and_get_entry_id
join_and_get_entry_id(manifest, base, path_add) ==
    IF try_directory_ref(get_entry(manifest, base))[1] = "Err"
    THEN try_directory_ref(get_entry(manifest, base))
    ELSE IF components(path_add) = <<>> THEN <<"Ok", base>>
    ELSE join_walk(manifest, base, components(path_add), base)

\* Manifest::get_map_parent: child -> the directory that lists it, for the
\* entries reachable from the root.
RECURSIVE map_parent_from(_, _, _)
map_parent_from(manifest, dirs_to_visit, map) ==
    IF dirs_to_visit = {} THEN map
    ELSE LET dir_entry_id == CHOOSE d \in dirs_to_visit : TRUE
             subs == Range(get_entry(manifest, dir_entry_id).entries)
             subdirs == {id \in subs : get_entry(manifest, id).kind = "dir"}
         IN  map_parent_from(manifest, (dirs_to_visit \ {dir_entry_id}) \cup subdirs,
                             [id \in DOMAIN map \cup subs |->
                                 IF id \in subs THEN dir_entry_id ELSE map[id]])

get_map_parent(manifest) == map_parent_from(manifest, {manifest.root}, EmptyFn)

\* Manifest::get_full_path: the names from below the root down to the entry.
RECURSIVE get_full_path(_, _, _)
get_full_path(manifest, entry_id, map_parent) ==
    IF entry_id = manifest.root THEN <<>>
    ELSE Append(get_full_path(manifest, map_parent[entry_id], map_parent),
                get_entry(manifest, entry_id).name)

\* Manifest::get_full_path_getter
full_path(manifest, entry_id) == get_full_path(manifest, entry_id, get_map_parent(manifest))

\* A count that looks at no child.
get_num_child_in_dir_recursNone(dirs_num_child, manifest, entry_id) ==
    [size |-> IF get_entry(manifest, entry_id).kind = "file" THEN <<1, 0>> ELSE <<0, 0>>,
     dirs_num_child |-> dirs_num_child]

\* get_num_child_in_dir_recurs: the (files, dirs) below an entry, and the memo
\* dirs_num_child as the call leaves it. num_child_loop is its for loop over
\* dir.entries.values().
RECURSIVE get_num_child_in_dir_recurs(_, _, _)
RECURSIVE num_child_loop(_, _, _, _)
num_child_loop(dirs_num_child, manifest, todo, size) ==
    IF todo = {} THEN [size |-> size, dirs_num_child |-> dirs_num_child]
    ELSE LET entry_id == CHOOSE id \in todo : TRUE
         IN  IF get_entry(manifest, entry_id).kind = "file"
             THEN num_child_loop(dirs_num_child, manifest, todo \ {entry_id},
                                 <<size[1] + 1, size[2]>>)
             ELSE LET below == get_num_child_in_dir_recurs(dirs_num_child, manifest, entry_id)
                  IN  num_child_loop(below.dirs_num_child, manifest, todo \ {entry_id},
                                     <<size[1] + below.size[1], size[2] + below.size[2] + 1>>)

get_num_child_in_dir_recurs(dirs_num_child, manifest, entry_id) ==
    LET entry == get_entry(manifest, entry_id)
    IN  IF entry.kind = "file" THEN [size |-> <<1, 0>>, dirs_num_child |-> dirs_num_child]
        ELSE IF entry_id \in DOMAIN dirs_num_child
        THEN [size |-> dirs_num_child[entry_id], dirs_num_child |-> dirs_num_child]
        ELSE LET done == num_child_loop(dirs_num_child, manifest, Range(entry.entries), <<0, 0>>)
             IN  [size |-> done.size,
                  dirs_num_child |-> Put(done.dirs_num_child, entry_id, done.size)]

\* A hash check that finds every file the same.
different_fileNever(manifest_A, manifest_B, dir_b, entry_id_a, acc) == acc

\* The hash check of a file of A whose name dir_b has: the local file is read
\* and hashed with the bucket name, and the name is compared with the blob key
\* of B's entry, which try_file_ref().unwrap() takes for a file. The file read
\* is one the local tree has unless B, the local side, has a directory there:
\* then the unwrap of the read panics before the one of try_file_ref.
different_file(manifest_A, manifest_B, dir_b, entry_id_a, acc) ==
    LET path == full_path(manifest_A, entry_id_a)
        hash_name == get_hash_name(acc.bucket_name, acc.archive_root[path])
        remote_entry == get_entry(manifest_B,
                            get_entry(manifest_B, dir_b).entries[
                                get_entry(manifest_A, entry_id_a).name])
    IN  IF remote_entry.kind # "file" THEN [acc EXCEPT !.panic = TRUE]
        ELSE IF hash_name # remote_entry.blob_key
        THEN [acc EXCEPT !.paths_of_different_files = Append(@, path)]
        ELSE acc

\* A match that takes whatever B has under the name for a directory.
diff_matchAnyKind(manifest_A, manifest_B, dir_b, entry_id_a, acc) ==
    LET entry_a == get_entry(manifest_A, entry_id_a)
        in_b == entry_a.name \in DOMAIN get_entry(manifest_B, dir_b).entries
    IN  IF entry_a.kind = "file"
        THEN IF in_b THEN acc
             ELSE [acc EXCEPT !.extra_files_in_a = @ + 1,
                              !.top_extra_ids_in_a = Append(@, entry_id_a)]
        ELSE IF in_b
        THEN [acc EXCEPT !.to_visit_dirs =
                 @ \cup {<<entry_id_a, get_entry(manifest_B, dir_b).entries[entry_a.name]>>}]
        ELSE LET num_children ==
                     get_num_child_in_dir_recurs(acc.dirs_num_files_dirs, manifest_A, entry_id_a)
             IN  [acc EXCEPT !.extra_dirs_in_a = @ + 1 + num_children.size[2],
                              !.extra_files_in_a = @ + num_children.size[1],
                              !.top_extra_ids_in_a = Append(@, entry_id_a),
                              !.dirs_num_files_dirs = num_children.dirs_num_child]

\* One entry of dir_a against dir_b, in the walk of diff_manifests. A directory
\* of A whose name is a file of B is the unwrap that panics.
diff_match(manifest_A, manifest_B, dir_b, entry_id_a, acc) ==
    LET entry_a == get_entry(manifest_A, entry_id_a)
        in_b == entry_a.name \in DOMAIN get_entry(manifest_B, dir_b).entries
    IN  IF entry_a.kind = "file"
        THEN IF in_b
             THEN IF acc.hash_check
                  THEN different_file(manifest_A, manifest_B, dir_b, entry_id_a, acc)
                  ELSE acc
             ELSE [acc EXCEPT !.extra_files_in_a = @ + 1,
                              !.top_extra_ids_in_a = Append(@, entry_id_a)]
        ELSE IF in_b
        THEN LET entry_id_b == get_entry(manifest_B, dir_b).entries[entry_a.name]
             IN  IF get_entry(manifest_B, entry_id_b).kind = "dir"
                 THEN [acc EXCEPT !.to_visit_dirs = @ \cup {<<entry_id_a, entry_id_b>>}]
                 ELSE [acc EXCEPT !.panic = TRUE]
        ELSE LET num_children ==
                     get_num_child_in_dir_recurs(acc.dirs_num_files_dirs, manifest_A, entry_id_a)
             IN  [acc EXCEPT !.extra_dirs_in_a = @ + 1 + num_children.size[2],
                              !.extra_files_in_a = @ + num_children.size[1],
                              !.top_extra_ids_in_a = Append(@, entry_id_a),
                              !.dirs_num_files_dirs = num_children.dirs_num_child]

\* A walk that excludes nothing.
diff_entryNoSkip(manifest_A, manifest_B, dir_b, entry_id_a, acc) ==
    diff_match(manifest_A, manifest_B, dir_b, entry_id_a, acc)

diff_entry(manifest_A, manifest_B, dir_b, entry_id_a, acc) ==
    IF full_path(manifest_A, entry_id_a) = <<".har">> THEN acc
    ELSE diff_match(manifest_A, manifest_B, dir_b, entry_id_a, acc)

\* The for loop over dir_a.entries.values(), in the order the HashMap gives.
RECURSIVE diff_dir(_, _, _, _, _)
diff_dir(manifest_A, manifest_B, dir_b, todo, acc) ==
    IF todo = {} \/ acc.panic THEN acc
    ELSE LET entry_id_a == CHOOSE id \in todo : TRUE
         IN  diff_dir(manifest_A, manifest_B, dir_b, todo \ {entry_id_a},
                      diff_entry(manifest_A, manifest_B, dir_b, entry_id_a, acc))

\* The while loop over to_visit_dirs.
RECURSIVE diff_visit(_, _, _)
diff_visit(manifest_A, manifest_B, acc) ==
    IF acc.to_visit_dirs = {} \/ acc.panic THEN acc
    ELSE LET pair == CHOOSE p \in acc.to_visit_dirs : TRUE
         IN  diff_visit(manifest_A, manifest_B,
                        diff_dir(manifest_A, manifest_B, pair[2],
                                 Range(get_entry(manifest_A, pair[1]).entries),
                                 [acc EXCEPT !.to_visit_dirs = @ \ {pair}]))

\* DiffManifests::default(), with the locals of diff_manifests: the pairs
\* still to visit, and whether an unwrap has panicked.
DiffManifestsDefault ==
    [to_visit_dirs |-> {}, panic |-> FALSE, top_extra_ids_in_a |-> <<>>,
     dirs_num_files_dirs |-> EmptyFn, extra_files_in_a |-> 0, extra_dirs_in_a |-> 0,
     paths_of_different_files |-> <<>>, archive_root |-> EmptyFn, bucket_name |-> "",
     hash_check |-> FALSE]

\* DiffManifests::with_hash_check; the archive root is given as the bytes of
\* the files under it.
with_hash_check(self, archive_root, bucket_name) ==
    [self EXCEPT !.hash_check = TRUE, !.archive_root = archive_root,
                 !.bucket_name = bucket_name]

\* DiffManifests::diff_manifests: the fields it returns, or the panic it ends
\* in.
DiffManifests_diff_manifests(self, manifest_A, manifest_B) ==
    LET acc == diff_visit(manifest_A, manifest_B,
                          [self EXCEPT !.to_visit_dirs =
                              {<<manifest_A.root, manifest_B.root>>}])
    IN  IF acc.panic THEN <<"panic", "called unwrap() on an Err value">>
        ELSE <<"Ok", [top_extra_ids_in_a |-> acc.top_extra_ids_in_a,
                      paths_of_top_extra_in_a |->
                          [i \in DOMAIN acc.top_extra_ids_in_a |->
                              full_path(manifest_A, acc.top_extra_ids_in_a[i])],
                      extra_files_in_a |-> acc.extra_files_in_a,
                      extra_dirs_in_a |-> acc.extra_dirs_in_a,
                      paths_of_different_files |-> acc.paths_of_different_files]>>

\* manifest::diff_manifests: the diff without hash check.
diff_manifests(manifest_A, manifest_B) ==
    DiffManifests_diff_manifests(DiffManifestsDefault, manifest_A, manifest_B)

\* ------------------------------------------------ SpecManifest: a caller
\* BlobKey::default(), the placeholder from_fs records.
DefaultKey == <<"00">>

\* The entries a caller adds: what add_dir_from_fs builds.
NewEntries ==
    {Directory(name, EmptyFn) : name \in Names}
        \cup {File(name, DefaultKey, IF name = "felt" THEN 1 ELSE 2) : name \in Names}

ManifestOf(on) == IF on = "a" THEN manifest_a ELSE manifest_b

\* manifest.add(entry, parent_dir) on A or on B.
AddEntry(on, entry, parent_dir) ==
    /\ parent_dir \in EntryIds(ManifestOf(on))
    /\ LET done == add(ManifestOf(on), entry, parent_dir)
       IN  /\ Len(done.manifest.entries) <= 1 + (IF on = "a" THEN MaxEntries ELSE MaxEntries - 1)
           /\ manifest_a' = IF on = "a" THEN done.manifest ELSE manifest_a
           /\ manifest_b' = IF on = "b" THEN done.manifest ELSE manifest_b
           /\ applied' = Some([op |-> "add", on |-> on, before |-> ManifestOf(on),
                               entry |-> entry, parent_dir |-> parent_dir,
                               result |-> done.result])
    /\ UNCHANGED <<storage_vars, mirror_vars, dirs, dot_har, cwd, process, cmd>>

\* get_full_path of an entry of A, then join_and_get_entry_id from the root.
ResolveEntry(entry_id) ==
    /\ entry_id \in EntryIds(manifest_a)
    /\ LET path == full_path(manifest_a, entry_id)
       IN  applied' = Some([op |-> "resolve", entry_id |-> entry_id, path |-> path,
                            result |-> join_and_get_entry_id(manifest_a, manifest_a.root, path)])
    /\ UNCHANGED <<storage_vars, mirror_vars, manifest_a, manifest_b, dirs, dot_har, cwd, process, cmd>>

\* diff_manifests(A, B)
DiffAB ==
    /\ applied' = Some([op |-> "diff", result |-> diff_manifests(manifest_a, manifest_b)])
    /\ UNCHANGED <<storage_vars, mirror_vars, manifest_a, manifest_b, dirs, dot_har, cwd, process, cmd>>

\* Manifest::from_bytes(manifest.to_bytes()) on A.
RoundTrip ==
    /\ applied' = Some([op |-> "round_trip", result |-> from_bytes(to_bytes(manifest_a))])
    /\ UNCHANGED <<storage_vars, mirror_vars, manifest_a, manifest_b, dirs, dot_har, cwd, process, cmd>>

\* The paths a caller joins: up to two segments, the root only in front.
JoinPaths ==
    {<<>>} \cup {<<first>> : first \in Names \cup {"/", ".", ".."}}
           \cup {<<first, second>> : first \in Names \cup {"/", ".", ".."},
                                     second \in Names \cup {".", ".."}}

\* manifest.join_and_get_entry_id(base, path_add) on A.
JoinPath(base, path_add) ==
    /\ base \in EntryIds(manifest_a)
    /\ applied' = Some([op |-> "join", base |-> base, path |-> path_add,
                        result |-> join_and_get_entry_id(manifest_a, base, path_add)])
    /\ UNCHANGED <<storage_vars, mirror_vars, manifest_a, manifest_b, dirs, dot_har, cwd, process, cmd>>

InitManifest ==
    /\ InitStorage
    /\ backend = "local"
    /\ store = EmptyFn

\* A caller that builds one manifest, resolves the paths of its entries and
\* serializes it.
NextManifest ==
    \/ \E entry \in NewEntries, parent_dir \in 0..MaxEntries : AddEntry("a", entry, parent_dir)
    \/ \E entry_id \in 0..MaxEntries : ResolveEntry(entry_id)
    \/ RoundTrip

SpecManifest == InitManifest /\ [][NextManifest]_vars

\* A caller that builds one manifest and joins paths to its entries.
NextJoin ==
    \/ \E entry \in NewEntries, parent_dir \in 0..MaxEntries : AddEntry("a", entry, parent_dir)
    \/ \E base \in 0..MaxEntries, path_add \in JoinPaths : JoinPath(base, path_add)

SpecJoin == InitManifest /\ [][NextJoin]_vars

\* A caller that builds two manifests and diffs them; it stops adding to a
\* manifest that is full.
NextDiff ==
    \/ \E on \in {"a", "b"}, entry \in NewEntries, parent_dir \in 0..MaxEntries :
          /\ Len(ManifestOf(on).entries) <= (IF on = "a" THEN MaxEntries ELSE MaxEntries - 1)
          /\ AddEntry(on, entry, parent_dir)
    \/ DiffAB

SpecDiff == InitManifest /\ [][NextDiff]_vars

\* The add that ended last: its record, the manifest it left, its parent.
LastAdd == applied[1]
AfterAdd == ManifestOf(LastAdd.on)
ParentOfAdd == get_entry(LastAdd.before, LastAdd.parent_dir)
NewId == Len(LastAdd.before.entries)

AddRefusesDuplicate ==
    (ParentOfAdd.kind = "dir" /\ LastAdd.entry.name \in DOMAIN ParentOfAdd.entries)
        => LastAdd.result[1] = "Err"

FailedAddChangesNothing ==
    LastAdd.result[1] = "Err" => AfterAdd = LastAdd.before

AddAppendsAndLinks ==
    (ParentOfAdd.kind = "dir" /\ LastAdd.entry.name \notin DOMAIN ParentOfAdd.entries)
        => /\ LastAdd.result = <<"Ok", NewId>>
           /\ AfterAdd.root = LastAdd.before.root
           /\ Len(AfterAdd.entries) = NewId + 1
           /\ get_entry(AfterAdd, NewId) = LastAdd.entry
           /\ \A id \in EntryIds(LastAdd.before) \ {LastAdd.parent_dir} :
                  get_entry(AfterAdd, id) = get_entry(LastAdd.before, id)
           /\ get_entry(AfterAdd, LastAdd.parent_dir) =
                  [ParentOfAdd EXCEPT !.entries =
                      [n \in DOMAIN ParentOfAdd.entries \cup {LastAdd.entry.name} |->
                          IF n = LastAdd.entry.name THEN NewId ELSE ParentOfAdd.entries[n]]]

\* C18: an add whose parent directory already has a child of the entry's name
\* fails, whatever the kinds of the two entries; a failed add leaves the arena
\* and every children map as they were; an add under a directory without such
\* a child appends the entry, links its name to the new id in the parent and
\* returns that id (the length of the arena before the add).
C18_AddChecksName ==
    (applied # None /\ applied[1].op = "add")
        => (AddRefusesDuplicate /\ FailedAddChangesNothing /\ AddAppendsAndLinks)

\* An add of a file failed because the parent has a directory of that name.
C18_Witness ==
    /\ applied # None /\ applied[1].op = "add"
    /\ LastAdd.result = <<"Err", "Entry with same name exists">>
    /\ LastAdd.entry.kind = "file"
    /\ LastAdd.parent_dir # 0
    /\ get_entry(LastAdd.before, ParentOfAdd.entries[LastAdd.entry.name]).kind = "dir"

\* C19: for every entry e of a manifest built by add calls, other than the
\* root, join_and_get_entry_id from the root along get_full_path(e) returns e;
\* get_full_path of the root is the empty path.
C19_PathResolvesToEntry ==
    (applied # None /\ applied[1].op = "resolve")
        => /\ applied[1].entry_id # manifest_a.root
                => applied[1].result = <<"Ok", applied[1].entry_id>>
           /\ applied[1].entry_id = manifest_a.root => applied[1].path = <<>>

\* The path of a file inside a directory has resolved to it, in a manifest
\* whose root has a child of the same name as the file.
C19_Witness ==
    /\ applied # None /\ applied[1].op = "resolve"
    /\ Len(applied[1].path) = 2
    /\ applied[1].result = <<"Ok", applied[1].entry_id>>
    /\ get_entry(manifest_a, applied[1].entry_id).kind = "file"
    /\ applied[1].path[2] \in DOMAIN get_entry(manifest_a, manifest_a.root).entries

\* The diff that ended last.
LastDiff == applied[1].result

Resolves(manifest, path) == join_and_get_entry_id(manifest, manifest.root, path)[1] = "Ok"

UnderDotHar(path) == path # <<>> /\ path[1] = ".har"

\* The entries of A, the root-level .har aside, whose path does not resolve in
\* B while their parent's path does.
TopExtras ==
    {e \in EntryIds(manifest_a) \ {manifest_a.root} :
        /\ ~UnderDotHar(full_path(manifest_a, e))
        /\ ~Resolves(manifest_b, full_path(manifest_a, e))
        /\ Resolves(manifest_b, full_path(manifest_a, get_map_parent(manifest_a)[e]))}

IsPrefix(p, q) == Len(p) < Len(q) /\ SubSeq(q, 1, Len(p)) = p

DiffIsExact ==
    /\ LastDiff[1] = "Ok"
    /\ Range(LastDiff[2].top_extra_ids_in_a) = TopExtras
    /\ Len(LastDiff[2].top_extra_ids_in_a) = Cardinality(TopExtras)
    /\ \A i, j \in DOMAIN LastDiff[2].paths_of_top_extra_in_a :
          ~IsPrefix(LastDiff[2].paths_of_top_extra_in_a[i],
                    LastDiff[2].paths_of_top_extra_in_a[j])
    /\ manifest_a = manifest_b
          => /\ LastDiff[2].top_extra_ids_in_a = <<>>
             /\ LastDiff[2].extra_files_in_a = 0
             /\ LastDiff[2].extra_dirs_in_a = 0
    /\ \A name \in Names, parent_dir \in EntryIds(manifest_b) :
          LET more == add(manifest_b, File(name, DefaultKey, 1), parent_dir)
          IN  (more.result[1] = "Ok" /\ more.manifest = manifest_a
                  /\ ~UnderDotHar(full_path(manifest_a, more.result[2])))
                  => /\ LastDiff[2].top_extra_ids_in_a = <<more.result[2]>>
                     /\ LastDiff[2].extra_files_in_a = 1

\* A directory of A lies where B has a file: the pair the walk of
\* diff_manifests unwraps as two directories.
KindClash ==
    \E e \in EntryIds(manifest_a) \ {manifest_a.root} :
        LET there == join_and_get_entry_id(manifest_b, manifest_b.root, full_path(manifest_a, e))
        IN  /\ get_entry(manifest_a, e).kind = "dir"
            /\ ~UnderDotHar(full_path(manifest_a, e))
            /\ there[1] = "Ok"
            /\ get_entry(manifest_b, there[2]).kind = "file"

\* C20: a diff of A against B returns, as top_extra_ids_in_a, exactly the
\* entries of A (the root-level .har aside) whose path does not resolve in B
\* while their parent's path does, each once and none below another; a diff
\* of a manifest against itself has no top extras and counts no extra files
\* or directories; a diff of B plus one file against B returns that file alone.
C20_TopExtrasExact ==
    (applied # None /\ applied[1].op = "diff") => DiffIsExact

\* The same, for the diffs in which no directory of A lies where B has a file.
C20_ExactWithoutClash ==
    (applied # None /\ applied[1].op = "diff" /\ ~KindClash) => DiffIsExact

\* A diff has returned one top extra, a directory, and counted it and the
\* entry below it, which is not a top extra.
C20_Witness ==
    /\ applied # None /\ applied[1].op = "diff"
    /\ LastDiff[1] = "Ok"
    /\ Len(LastDiff[2].top_extra_ids_in_a) = 1
    /\ get_entry(manifest_a, LastDiff[2].top_extra_ids_in_a[1]).kind = "dir"
    /\ LastDiff[2].extra_dirs_in_a + LastDiff[2].extra_files_in_a = 2

\* ------------------------------------------- Manifest: bytes, trees, merge
\* The entries below an entry: its children, and what is below them.
RECURSIVE Descendants(_, _)
Descendants(manifest, entry_id) ==
    LET subs == Range(get_entry(manifest, entry_id).entries)
    IN  subs \cup UNION {Descendants(manifest, id) : id \in subs}

\* dir.entries.values(), in the order the HashMap gives them.
values(dir) == SeqOf(Range(dir.entries))

\* A traversal that does not go into the directories it meets.
RECURSIVE child_files_loopShallow(_, _, _)
child_files_loopShallow(manifest, to_visit, child_files) ==
    IF to_visit = <<>> THEN child_files
    ELSE LET entry_id == Last(to_visit)
             rest == SubSeq(to_visit, 1, Len(to_visit) - 1)
         IN  IF get_entry(manifest, entry_id).kind = "file"
             THEN child_files_loopShallow(manifest, rest, Append(child_files, entry_id))
             ELSE child_files_loopShallow(manifest, rest, child_files)

\* while let Some(entry_id) = to_visit.pop(): a file is pushed onto
\* child_files, the children of a directory go onto to_visit.
RECURSIVE child_files_loop(_, _, _)
child_files_loop(manifest, to_visit, child_files) ==
    IF to_visit = <<>> THEN child_files
    ELSE LET entry_id == Last(to_visit)
             rest == SubSeq(to_visit, 1, Len(to_visit) - 1)
             entry == get_entry(manifest, entry_id)
         IN  IF entry.kind = "file"
             THEN child_files_loop(manifest, rest, Append(child_files, entry_id))
             ELSE child_files_loop(manifest, rest \o values(entry), child_files)

\* Manifest::get_child_files_recurs
get_child_files_recurs(manifest, entry_id) ==
    LET entry == get_entry(manifest, entry_id)
    IN  IF entry.kind = "file" THEN <<entry_id>>
        ELSE child_files_loop(manifest, values(entry), <<>>)

\* The same loop, keeping the directories.
RECURSIVE child_dirs_loop(_, _, _)
child_dirs_loop(manifest, to_visit, child_dirs) ==
    IF to_visit = <<>> THEN child_dirs
    ELSE LET entry_id == Last(to_visit)
             rest == SubSeq(to_visit, 1, Len(to_visit) - 1)
             entry == get_entry(manifest, entry_id)
         IN  IF entry.kind = "file"
             THEN child_dirs_loop(manifest, rest, child_dirs)
             ELSE child_dirs_loop(manifest, rest \o values(entry), Append(child_dirs, entry_id))

\* Manifest::get_child_dirs_recurs
get_child_dirs_recurs(manifest, entry_id) ==
    LET entry == get_entry(manifest, entry_id)
    IN  IF entry.kind = "file" THEN <<>>
        ELSE child_dirs_loop(manifest, values(entry), <<entry_id>>)

\* Manifest::from_fs over the directories ds and the files fs of the archive
\* root: every entry is added under the entry of its directory, after it.
RECURSIVE add_dir_from_fs(_, _, _, _, _)
add_dir_from_fs(manifest, ids, todo, ds, fs) ==
    IF todo = {} THEN manifest
    ELSE LET path == CHOOSE q \in todo : ParentPath(q) \in DOMAIN ids
             entry == IF path \in ds THEN Directory(Last(path), EmptyFn)
                                     ELSE File(Last(path), DefaultKey, Len(fs[path]))
             done == add(manifest, entry, ids[ParentPath(path)])
         IN  add_dir_from_fs(done.manifest, Put(ids, path, done.result[2]), todo \ {path},
                             ds, fs)

\* The paths below the archive root (a path that leaves it starts with "..").
Inside(paths) == {path \in paths : path # <<>> /\ path[1] # ".."}

from_fs(ds, fs) ==
    add_dir_from_fs(ManifestNew, [path \in {<<>>} |-> 0], Inside(ds \cup DOMAIN fs), ds, fs)

\* A new directory that keeps the children map of the source directory.
new_dir_bClone(dir) == Directory(dir.name, dir.entries)

\* Directory { name: dir.name.clone(), entries: HashMap::new() }
new_dir_b(dir) == Directory(dir.name, EmptyFn)

\* A copy that keeps the blob key the source entry has.
add_entry_src_to_destKeepKey(src, dest, entry_id_src, dest_dir, dir_path, blob_keys, dirs_to_visit) ==
    LET entry_src == get_entry(src, entry_id_src)
        done == add(dest, [entry_src EXCEPT !.entries = EmptyFn], dest_dir)
    IN  [result |-> done.result, manifest |-> done.manifest,
         dirs_to_visit |->
             IF done.result[1] = "Ok" /\ entry_src.kind = "dir"
             THEN Append(dirs_to_visit, <<entry_id_src, done.result[2]>>)
             ELSE dirs_to_visit]

\* add_new_entries_to_manifest, the closure add_entry_src_to_dest: one entry of
\* src is added to dest under dest_dir; a directory is pushed on dirs_to_visit
\* with the id it got. dest is changed in place: what was added stays when a
\* later step fails.
add_entry_src_to_dest(src, dest, entry_id_src, dest_dir, dir_path, blob_keys, dirs_to_visit) ==
    LET entry_src == get_entry(src, entry_id_src)
        path == Append(dir_path, entry_src.name)
    IN  IF entry_src.kind = "file"
        THEN IF path \notin DOMAIN blob_keys
             THEN [result |-> <<"Err", "Did not find path-key entry in map">>,
                   manifest |-> dest, dirs_to_visit |-> dirs_to_visit]
             ELSE LET done == add(dest, File(entry_src.name, blob_keys[path], entry_src.size),
                                  dest_dir)
                  IN  [result |-> done.result, manifest |-> done.manifest,
                       dirs_to_visit |-> dirs_to_visit]
        ELSE LET done == add(dest, new_dir_b(entry_src), dest_dir)
             IN  [result |-> done.result, manifest |-> done.manifest,
                  dirs_to_visit |->
                      IF done.result[1] = "Ok"
                      THEN Append(dirs_to_visit, <<entry_id_src, done.result[2]>>)
                      ELSE dirs_to_visit]

\* Step 1: the top extras, in the order of the diff, each under the entry of
\* dest that its parent's path leads to.
RECURSIVE add_top_extras(_, _, _, _, _)
add_top_extras(src, dest, todo, blob_keys, dirs_to_visit) ==
    IF todo = <<>>
    THEN [result |-> <<"Ok", <<>>>>, manifest |-> dest, dirs_to_visit |-> dirs_to_visit]
    ELSE LET map_parent_src == get_map_parent(src)
             parent_path == get_full_path(src, map_parent_src[Head(todo)], map_parent_src)
             parent_b == join_and_get_entry_id(dest, dest.root, parent_path)
         IN  IF parent_b[1] = "Err"
             THEN [result |-> parent_b, manifest |-> dest, dirs_to_visit |-> dirs_to_visit]
             ELSE LET done == add_entry_src_to_dest(src, dest, Head(todo), parent_b[2],
                                                    parent_path, blob_keys, dirs_to_visit)
                  IN  IF done.result[1] = "Err" THEN done
                      ELSE add_top_extras(src, done.manifest, Tail(todo), blob_keys,
                                          done.dirs_to_visit)

\* Step 2, the for loop over dir_a.entries of one directory popped.
RECURSIVE add_sub_entries(_, _, _, _, _, _, _)
add_sub_entries(src, dest, todo, dir_entry_id_b, parent_path, blob_keys, dirs_to_visit) ==
    IF todo = {}
    THEN [result |-> <<"Ok", <<>>>>, manifest |-> dest, dirs_to_visit |-> dirs_to_visit]
    ELSE LET sub_entry_id == CHOOSE id \in todo : TRUE
             done == add_entry_src_to_dest(src, dest, sub_entry_id, dir_entry_id_b,
                                           parent_path, blob_keys, dirs_to_visit)
         IN  IF done.result[1] = "Err" THEN done
             ELSE add_sub_entries(src, done.manifest, todo \ {sub_entry_id}, dir_entry_id_b,
                                  parent_path, blob_keys, done.dirs_to_visit)

\* Step 2, the while loop: dirs_to_visit.pop() takes the last pair pushed.
RECURSIVE add_visited_dirs(_, _, _, _)
add_visited_dirs(src, dest, dirs_to_visit, blob_keys) ==
    IF dirs_to_visit = <<>> THEN [result |-> <<"Ok", <<>>>>, manifest |-> dest]
    ELSE LET pair == Last(dirs_to_visit)
             done == add_sub_entries(src, dest, Range(get_entry(src, pair[1]).entries),
                                     pair[2], full_path(src, pair[1]), blob_keys,
                                     SubSeq(dirs_to_visit, 1, Len(dirs_to_visit) - 1))
         IN  IF done.result[1] = "Err"
             THEN [result |-> done.result, manifest |-> done.manifest]
             ELSE add_visited_dirs(src, done.manifest, done.dirs_to_visit, blob_keys)

\* A merge that ends after step 1.
add_new_entries_to_manifestTopOnly(src, dest, top_extra_ids_in_a, blob_keys) ==
    LET step1 == add_top_extras(src, dest, top_extra_ids_in_a, blob_keys, <<>>)
    IN  [result |-> step1.result, manifest |-> step1.manifest]

add_new_entries_to_manifest(src, dest, top_extra_ids_in_a, blob_keys) ==
    LET step1 == add_top_extras(src, dest, top_extra_ids_in_a, blob_keys, <<>>)
    IN  IF step1.result[1] = "Err"
        THEN [result |-> step1.result, manifest |-> step1.manifest]
        ELSE add_visited_dirs(src, step1.manifest, step1.dirs_to_visit, blob_keys)

\* --------------------------------------- WithRemoteAndLocal: push and pull
\* TransferConfig::default()
DefaultConfig == [active_tasks_limit |-> 32, active_size_limit |-> 10000000]

\* DotHar::get_manifest: read fetched_manifest and decode it.
get_manifest(meta) ==
    IF meta.fetched_manifest = None THEN <<"Err", "Read fetched_manifest">>
    ELSE from_bytes(meta.fetched_manifest[1])

\* A command is under way from its start to its return; the Mirror call it
\* makes runs in between.
Idle == IF cmd = None THEN TRUE ELSE cmd[1].stage = "done"

\* The locals of a command, and (history) the blob under the manifest key and
\* the local tree when it started, and the tree that was pushed before.
Command(name, stage, local_manifest, remote_manifest, top, result) ==
    Some([name |-> name, stage |-> stage, local_manifest |-> local_manifest,
          remote_manifest |-> remote_manifest, top_extra_ids_in_a |-> top,
          before |-> ManifestBlobOf(store), dirs_before |-> dirs, files_before |-> disk,
          pushed |-> IF cmd = None THEN None ELSE cmd[1].pushed,
          result |-> result])

\* The command returns without a Mirror call.
ReturnsAtOnce(name, local_manifest, remote_manifest, result) ==
    /\ cmd' = Command(name, "done", local_manifest, remote_manifest, <<>>, result)
    /\ UNCHANGED <<storage_vars, mirror_vars, manifest_a, manifest_b, applied, dirs,
                   dot_har, cwd, process>>

\* WithRemoteAndLocal::new and the call of Mirror::push / Mirror::pull: a new
\* process with a new BlobStorage, and the locals of the Mirror call.
CallMirror(which, list) ==
    /\ senders' = <<>>
    /\ next_task_id' = 0
    /\ rx' = <<>>
    /\ threads' = EmptyFn
    /\ issued' = <<>>
    /\ ret' = None
    /\ mode' = which
    /\ files' = list
    /\ config' = DefaultConfig
    /\ pc' = "init"
    /\ events' = 0
    /\ active_tasks' = EmptyFn
    /\ active_size' = 0
    /\ results' = [i \in 1..Len(list) |-> None]
    /\ sizes' = [i \in 1..Len(list) |-> None]
    /\ next_index' = 0
    /\ task_of' = EmptyFn
    /\ received' = <<>>

\* WithRemoteAndLocal::push, up to the call of Mirror::push.
PushStart ==
    /\ Idle
    /\ LET local_manifest == from_fs(dirs, disk)
           fetched == get_manifest(dot_har)
       IN  IF fetched[1] = "Err"
           THEN ReturnsAtOnce("push", local_manifest, ManifestNew, fetched)
           ELSE LET diff == diff_manifests(local_manifest, fetched[2])
                IN  IF diff[1] = "panic"
                    THEN ReturnsAtOnce("push", local_manifest, fetched[2], diff)
                    ELSE IF diff[2].top_extra_ids_in_a = <<>>
                    THEN ReturnsAtOnce("push", local_manifest, fetched[2], <<"Ok", <<>>>>)
                    ELSE LET top == diff[2].top_extra_ids_in_a
                             files_to_push ==
                                 SeqOf(UNION {Range(get_child_files_recurs(local_manifest, top[i])) :
                                                 i \in DOMAIN top})
                             paths_in_archive ==
                                 [i \in DOMAIN files_to_push |->
                                     [path |-> full_path(local_manifest, files_to_push[i]),
                                      size |-> get_entry(local_manifest, files_to_push[i]).size]]
                         IN  /\ CallMirror("push", paths_in_archive)
                             /\ cmd' = Command("push", "transfer", local_manifest,
                                               fetched[2], top, None)
                             /\ UNCHANGED <<backend, store, disk, manifest_a, manifest_b,
                                            applied, dirs, dot_har, cwd, process>>

\* What can go wrong in store_manifest_with_backup: the copy fails; the write
\* fails before it changed the file, or after it truncated it.
StoreFaults == {"none", "copy", "write", "torn"}

\* DotHar::store_manifest_with_backup
store_manifest_with_backup(meta, manifest_blob, fault) ==
    IF meta.fetched_manifest = None \/ fault = "copy"
    THEN [result |-> <<"Err", "Backup of fetched manifest">>, meta |-> meta]
    ELSE IF fault = "write"
    THEN [result |-> <<"Err", "Storing fetched manifest">>,
          meta |-> [meta EXCEPT !.backup = meta.fetched_manifest]]
    ELSE IF fault = "torn"
    THEN [result |-> <<"Err", "Storing fetched manifest">>,
          meta |-> [fetched_manifest |-> Some(<<"torn">>), backup |-> meta.fetched_manifest]]
    ELSE [result |-> <<"Ok", <<>>>>,
          meta |-> [fetched_manifest |-> Some(manifest_blob),
                    backup |-> meta.fetched_manifest]]

\* The command returns: Mirror's locals are gone.
Return(result) ==
    /\ cmd' = Some([cmd[1] EXCEPT !.stage = "done", !.result = result])
    /\ pc' = "idle"
    /\ UNCHANGED <<backend, senders, next_task_id, rx, threads, issued, ret, mode, files,
                   config, events, active_tasks, active_size, results, sizes, next_index,
                   task_of, received, disk, manifest_a, manifest_b, applied, dirs, cwd, process>>

\* WithRemoteAndLocal::push, from the return of Mirror::push: the blob keys, the
\* merge, push_manifest_blob, store_manifest_with_backup.
PushFinish ==
    /\ ~Idle /\ cmd[1].name = "push"
    /\ pc \in {"ok", "err", "panic"}
    /\ IF pc # "ok"
       THEN /\ Return(<<IF pc = "err" THEN "Err" ELSE "panic", "Mirror::push">>)
            /\ UNCHANGED <<store, dot_har>>
       ELSE IF \E i \in DOMAIN results : results[i] = None \/ results[i][1][1] # "Ok"
       THEN /\ Return(<<"Err", "Result of upload not filled properly">>)
            /\ UNCHANGED <<store, dot_har>>
       ELSE LET blob_keys == [path \in {files[i].path : i \in DOMAIN files} |->
                                 LET i == CHOOSE j \in DOMAIN files : files[j].path = path
                                 IN  results[i][1][2]]
                merged == add_new_entries_to_manifest(cmd[1].local_manifest,
                                                      cmd[1].remote_manifest,
                                                      cmd[1].top_extra_ids_in_a, blob_keys)
                new_remote_manifest_bytes == to_bytes(merged.manifest)
            IN  IF merged.result[1] = "Err"
                THEN /\ Return(merged.result)
                     /\ UNCHANGED <<store, dot_har>>
                ELSE \E fault \in Faults(backend, "upload") :
                       LET up == Blocking(store, "upload", Some(MANIFEST_KEY),
                                          new_remote_manifest_bytes, fault)
                       IN  /\ store' = up.store
                           /\ IF up.result[1] = "Err"
                              THEN /\ Return(up.result)
                                   /\ UNCHANGED dot_har
                              ELSE \E local_fault \in StoreFaults :
                                     LET stored == store_manifest_with_backup(
                                                      dot_har, new_remote_manifest_bytes,
                                                      local_fault)
                                     IN  /\ dot_har' = stored.meta
                                         /\ Return(stored.result)

\* std::fs::create_dir_all(path) from the directory the process runs in: the
\* directories it makes, or an error when a component is a file.
create_dir_all(from, path) ==
    LET made == {from \o SubSeq(path, 1, n) : n \in 1..Len(path)}
    IN  IF made \cap DOMAIN disk # {} THEN <<"Err", made>> ELSE <<"Ok", made>>

\* WithRemoteAndLocal::pull, up to the call of Mirror::pull.
PullStart ==
    /\ Idle
    /\ LET local_manifest == from_fs(dirs, disk)
           fetched == get_manifest(dot_har)
       IN  IF fetched[1] = "Err"
           THEN ReturnsAtOnce("pull", local_manifest, ManifestNew, fetched)
           ELSE LET diff == diff_manifests(fetched[2], local_manifest)
                IN  IF diff[1] = "panic"
                    THEN ReturnsAtOnce("pull", local_manifest, fetched[2], diff)
                    ELSE IF diff[2].top_extra_ids_in_a = <<>>
                    THEN ReturnsAtOnce("pull", local_manifest, fetched[2], <<"Ok", <<>>>>)
                    ELSE LET top == diff[2].top_extra_ids_in_a
                             ids == SeqOf(UNION {Range(get_child_files_recurs(fetched[2], top[i])) :
                                                    i \in DOMAIN top})
                             files_to_pull ==
                                 [i \in DOMAIN ids |->
                                     [path |-> full_path(fetched[2], ids[i]),
                                      key |-> get_entry(fetched[2], ids[i]).blob_key,
                                      size |-> get_entry(fetched[2], ids[i]).size]]
                             extra_dirs ==
                                 UNION {Range(get_child_dirs_recurs(fetched[2], top[i])) :
                                           i \in DOMAIN top}
                             made == {create_dir_all(cwd, full_path(fetched[2], dir)) :
                                         dir \in extra_dirs}
                         IN  \E fault \in {"none", "io"} :
                               IF fault = "io" /\ extra_dirs # {}
                               THEN ReturnsAtOnce("pull", local_manifest, fetched[2],
                                                  <<"Err", "Making sure all directories exist">>)
                               ELSE IF \E m \in made : m[1] = "Err"
                               THEN ReturnsAtOnce("pull", local_manifest, fetched[2],
                                                  <<"Err", "Making sure all directories exist">>)
                               ELSE /\ fault = "none"
                                    /\ dirs' = dirs \cup UNION {m[2] : m \in made}
                                    /\ CallMirror("pull", files_to_pull)
                                    /\ cmd' = Command("pull", "transfer", local_manifest,
                                                      fetched[2], top, None)
                                    /\ UNCHANGED <<backend, store, disk, manifest_a,
                                                   manifest_b, applied, dot_har, cwd, process>>

\* WithRemoteAndLocal::pull, from the return of Mirror::pull.
PullFinish ==
    /\ ~Idle /\ cmd[1].name = "pull"
    /\ pc \in {"ok", "err", "panic"}
    /\ Return(IF pc = "ok" THEN <<"Ok", <<>>>>
              ELSE <<IF pc = "err" THEN "Err" ELSE "panic", "Mirror::pull">>)
    /\ UNCHANGED <<store, dot_har>>

\* Where a pull may be run from: the archive root, a directory below it, or a
\* directory that is not below it (DotHar::with_path).
WorkingDirs == {<<>>, <<".har">>, <<"..", "work">>}

\* After a push, on another archive root that has nothing but its .har:
\* fetch_manifest (get_manifest_blob, then store_manifest).
FetchOnNewRoot ==
    /\ Idle /\ cmd # None
    /\ cmd[1].name = "push" /\ cmd[1].result[1] = "Ok"
    /\ ManifestPlain(store)[1] = "Ok"
    /\ \E from \in WorkingDirs :
          /\ cwd' = from
          /\ dirs' = {<<>>, <<".har">>, from}
    /\ disk' = EmptyFn
    /\ dot_har' = [fetched_manifest |-> Some(ManifestPlain(store)[2]), backup |-> None]
    /\ cmd' = Some([name |-> "fetch_manifest", stage |-> "done",
                    local_manifest |-> ManifestNew, remote_manifest |-> ManifestNew,
                    top_extra_ids_in_a |-> <<>>, before |-> ManifestBlobOf(store),
                    dirs_before |-> dirs, files_before |-> disk,
                    pushed |-> Some(IF cmd[1].pushed = None
                                    THEN [dirs |-> dirs, files |-> disk]
                                    ELSE [dirs |-> cmd[1].pushed[1].dirs \cup dirs,
                                          files |-> cmd[1].pushed[1].files @@ disk]),
                    result |-> <<"Ok", <<>>>>])
    /\ UNCHANGED <<storage_vars, mode, files, config, pc, events, active_tasks, active_size,
                   results, sizes, next_index, task_of, received, manifest_a, manifest_b,
                   applied, process>>

\* The tree of the push/pull test: felt, dango/fetch, dog/fault and the empty
\* directory dog/deal.
TestDirs == {<<"dango">>, <<"dog">>, <<"dog", "deal">>}
TestFiles == {<<"felt">>, <<"dango", "fetch">>, <<"dog", "fault">>}
Content(path) == IF path = <<"dango", "fetch">> THEN Payload(2) ELSE Payload(1)

\* The trees an archive root starts with: parts of the test's tree.
Trees ==
    {tree \in SUBSET (TestDirs \cup TestFiles) :
        /\ Cardinality(tree) <= MaxEntries
        /\ \A path \in tree : Len(path) = 1 \/ ParentPath(path) \in tree}

\* An archive after init_remote and fetch_manifest, as in fetch_diff_push: the
\* remote and .har hold the empty manifest; the process runs in the archive root.
InitArchive ==
    /\ backend \in Backends
    /\ store = [key \in {MANIFEST_KEY} |-> encrypt_blob(to_bytes(ManifestNew), TRUE)[2]]
    /\ senders = <<>>
    /\ next_task_id = 0
    /\ rx = <<>>
    /\ threads = EmptyFn
    /\ issued = <<>>
    /\ ret = None
    /\ mode = "none"
    /\ files = <<>>
    /\ config = DefaultConfig
    /\ pc = "idle"
    /\ events = 0
    /\ active_tasks = EmptyFn
    /\ active_size = 0
    /\ results = <<>>
    /\ sizes = <<>>
    /\ next_index = 0
    /\ task_of = EmptyFn
    /\ received = <<>>
    /\ \E tree \in Trees :
          /\ dirs = {<<>>, <<".har">>} \cup (tree \cap TestDirs)
          /\ disk = [path \in tree \cap TestFiles |-> Content(path)]
    /\ manifest_a = ManifestNew
    /\ manifest_b = ManifestNew
    /\ applied = None
    /\ dot_har = [fetched_manifest |-> Some(to_bytes(ManifestNew)), backup |-> None]
    /\ cwd = <<>>
    /\ cmd = None
    /\ process = [hook |-> "default", inside |-> {}, hooked |-> {}, exit |-> None]

NextArchive ==
    \/ PushStart
    \/ PushFinish
    \/ FetchOnNewRoot
    \/ PullStart
    \/ PullFinish
    \/ MirrorEnter
    \/ PushAdmit
    \/ PullAdmit
    \/ MirrorDrain
    \/ MirrorReturnOk
    \/ TaskStep

SpecArchive == InitArchive /\ [][NextArchive]_vars

\* The command that ended last is the named one.
Ended(name) == cmd # None /\ cmd[1].name = name /\ cmd[1].stage = "done"

\* C16: when WithRemoteAndLocal::push has returned an error, the blob under
\* "manifest" on the remote is the one that was there when the push started.
C16_FailedPushKeepsManifest ==
    (Ended("push") /\ cmd[1].result[1] = "Err")
        => ManifestBlobOf(store) = cmd[1].before

\* The same, for the pushes that fail before they call push_manifest_blob:
\* reading the fetched manifest, the transfer of the files, the merge.
C16_KeptUntilManifestUpload ==
    (Ended("push") /\ cmd[1].result[1] = "Err"
        /\ cmd[1].result[2] \in {"Read fetched_manifest", "rmp_serde decode error",
                                  "Mirror::push", "Result of upload not filled properly",
                                  "Did not find path-key entry in map",
                                  "Entry with same name exists", "Entry not found in cd"})
        => ManifestBlobOf(store) = cmd[1].before

\* A push has failed in the transfer after one of its files was uploaded.
C16_Witness ==
    /\ Ended("push")
    /\ cmd[1].result = <<"Err", "Mirror::push">>
    /\ \E key \in DOMAIN store : key # MANIFEST_KEY /\ store[key].auth

\* Every entry of the remote manifest that was missing under the archive root
\* when the pull started is there now, the files with the bytes pushed.
MissingRestored ==
    \A e \in EntryIds(cmd[1].remote_manifest) \ {cmd[1].remote_manifest.root} :
        LET path == full_path(cmd[1].remote_manifest, e)
        IN  path \notin (cmd[1].dirs_before \cup DOMAIN cmd[1].files_before)
                => IF get_entry(cmd[1].remote_manifest, e).kind = "dir"
                   THEN path \in dirs
                   ELSE /\ path \in DOMAIN disk
                        /\ disk[path] = cmd[1].pushed[1].files[path]

PullSucceeded ==
    /\ Ended("pull")
    /\ cmd[1].result[1] = "Ok"
    /\ cmd[1].pushed # None

\* C17: after a tree was pushed, when WithRemoteAndLocal::pull has succeeded on
\* an archive root that lacked entries of the remote manifest, every such
\* directory and file exists under that archive root, and every pulled file
\* has the bytes that were pushed.
C17_PullRestoresTree == PullSucceeded => MissingRestored

\* The same, for the pulls run with the archive root as working directory.
C17_RestoresFromRoot == (PullSucceeded /\ cwd = <<>>) => MissingRestored

\* A pull run from the archive root has succeeded and brought back a file
\* inside a directory that was missing.
C17_Witness ==
    /\ PullSucceeded
    /\ cwd = <<>>
    /\ <<"dango">> \notin cmd[1].dirs_before
    /\ <<"dango", "fetch">> \in DOMAIN disk

\* ------------------------------------------------------- the counts of a diff
\* The entries of A, the root-level .har and what is below it aside, whose
\* path does not resolve in B.
NotInB ==
    {e \in EntryIds(manifest_a) \ {manifest_a.root} :
        /\ ~UnderDotHar(full_path(manifest_a, e))
        /\ ~Resolves(manifest_b, full_path(manifest_a, e))}

OfKind(S, kind) == {e \in S : get_entry(manifest_a, e).kind = kind}

\* The (files, dirs) strictly below an entry of A.
Below(entry_id) ==
    <<Cardinality(OfKind(Descendants(manifest_a, entry_id), "file")),
      Cardinality(OfKind(Descendants(manifest_a, entry_id), "dir"))>>

\* A count of entry second made with the memo that a count of entry first left.
Recount(first, second) ==
    get_num_child_in_dir_recurs(
        get_num_child_in_dir_recurs(EmptyFn, manifest_a, first).dirs_num_child,
        manifest_a, second)

\* C21: in a diff of A against B that returns, extra_files_in_a and
\* extra_dirs_in_a are the numbers of files and of directories of A (the
\* root-level .har aside) whose path does not resolve in B; these entries are
\* the top extras and all their descendants, each counted once; and a count
\* of the entries below a directory is the same when it is made with a memo
\* that counts of other entries have filled.
C21_CountsAreExact ==
    (applied # None /\ applied[1].op = "diff" /\ LastDiff[1] = "Ok")
        => /\ LastDiff[2].extra_files_in_a = Cardinality(OfKind(NotInB, "file"))
           /\ LastDiff[2].extra_dirs_in_a = Cardinality(OfKind(NotInB, "dir"))
           /\ NotInB = UNION {{e} \cup Descendants(manifest_a, e) :
                                 e \in Range(LastDiff[2].top_extra_ids_in_a)}
           /\ \A first, second \in EntryIds(manifest_a) :
                  get_entry(manifest_a, second).kind = "dir"
                      => Recount(first, second).size = Below(second)

\* A diff has returned one top extra, a directory holding a directory, and
\* counted both; the count of the outer one leaves the inner one in the memo.
C21_Witness ==
    /\ applied # None /\ applied[1].op = "diff"
    /\ LastDiff[1] = "Ok"
    /\ Len(LastDiff[2].top_extra_ids_in_a) = 1
    /\ LastDiff[2].extra_dirs_in_a = 2
    /\ \E inner \in EntryIds(manifest_a) \ {LastDiff[2].top_extra_ids_in_a[1]} :
          inner \in DOMAIN get_num_child_in_dir_recurs(
                               EmptyFn, manifest_a,
                               LastDiff[2].top_extra_ids_in_a[1]).dirs_num_child

\* The entries of A at or below the root-level .har.
InDotHar == {e \in EntryIds(manifest_a) \ {manifest_a.root} : UnderDotHar(full_path(manifest_a, e))}

\* What the diff that ended last counted: its top extras and their descendants.
Counted ==
    UNION {{e} \cup Descendants(manifest_a, e) : e \in Range(LastDiff[2].top_extra_ids_in_a)}

\* C22: in a diff of A against B that returns, the child of A's root named
\* .har and everything below it are not among top_extra_ids_in_a, their paths
\* are not among paths_of_top_extra_in_a, and they are not counted in
\* extra_files_in_a or extra_dirs_in_a, whether or not B has a .har entry.
C22_DotHarNeverExtra ==
    (applied # None /\ applied[1].op = "diff" /\ LastDiff[1] = "Ok")
        => /\ Range(LastDiff[2].top_extra_ids_in_a) \cap InDotHar = {}
           /\ \A i \in DOMAIN LastDiff[2].paths_of_top_extra_in_a :
                  ~UnderDotHar(LastDiff[2].paths_of_top_extra_in_a[i])
           /\ Counted \cap InDotHar = {}
           /\ LastDiff[2].extra_files_in_a = Cardinality(OfKind(Counted, "file"))
           /\ LastDiff[2].extra_dirs_in_a = Cardinality(OfKind(Counted, "dir"))

\* A diff has returned for an A whose .har directory holds an entry and a B
\* without .har.
C22_Witness ==
    /\ applied # None /\ applied[1].op = "diff"
    /\ LastDiff[1] = "Ok"
    /\ Cardinality(InDotHar) = 2
    /\ ".har" \notin DOMAIN get_entry(manifest_b, manifest_b.root).entries
    /\ Len(manifest_b.entries) > 1

nonce_size == 12

Keys == {"k1", "k2"}
Nonces == {"n1", "n2"}
Plaintexts == {Payload(n) : n \in 0..MaxSize}

NonceBytes(nonce) == [i \in 1..nonce_size |-> <<"nonce", nonce, i>>]

\* ChaCha20Poly1305 encrypt: as many bytes as the plaintext, then the 16 of the tag.
cipher_encrypt(key, nonce, plain) ==
    [i \in 1..(Len(plain) + 16) |-> <<"ct", key, nonce, plain, i>>]

\* ChaCha20Poly1305 decrypt: the plaintext, if the bytes are a whole
\* ciphertext made with this key and this nonce.
cipher_decrypt(key, nonce_bytes, cipher_text) ==
    IF cipher_text = <<>> THEN <<"Err", "cipher.decrypt error">>
    ELSE IF cipher_text[1][1] # "ct" THEN <<"Err", "cipher.decrypt error">>
    ELSE IF /\ cipher_text[1][2] = key
            /\ nonce_bytes = NonceBytes(cipher_text[1][3])
            /\ cipher_text = cipher_encrypt(key, cipher_text[1][3], cipher_text[1][4])
    THEN <<"Ok", cipher_text[1][4]>>
    ELSE <<"Err", "cipher.decrypt error">>

\* EncryptWithChacha::encrypt_blob with the nonce generate_nonce drew.
blob_with_nonce(key, nonce, data, ok) ==
    IF ok THEN <<"Ok", NonceBytes(nonce) \o cipher_encrypt(key, nonce, data)>>
          ELSE <<"Err", "cipher.encrypt error">>

\* A decryption that takes one byte too many for the nonce.
decrypt_blob_bytesLongNonce(key, data) ==
    IF Len(data) < nonce_size + 1
    THEN <<"Err", "decrypt_blob data is just the nonce?">>
    ELSE cipher_decrypt(key, SubSeq(data, 1, nonce_size),
                        SubSeq(data, nonce_size + 2, Len(data)))

\* EncryptWithChacha::decrypt_blob on bytes.
decrypt_blob_bytes(key, data) ==
    IF Len(data) < nonce_size
    THEN <<"Err", "decrypt_blob not enough bytes in data to contain a nonce">>
    ELSE IF Len(data) < nonce_size + 1
    THEN <<"Err", "decrypt_blob data is just the nonce?">>
    ELSE cipher_decrypt(key, SubSeq(data, 1, nonce_size),
                        SubSeq(data, nonce_size + 1, Len(data)))

\* encrypt.encrypt_blob(plain_text)
Encrypt ==
    \E key \in Keys, nonce \in Nonces, data \in Plaintexts, ok \in BOOLEAN :
        /\ applied' = Some([op |-> "encrypt", key |-> key, data |-> data,
                            result |-> blob_with_nonce(key, nonce, data, ok)])
        /\ UNCHANGED <<storage_vars, mirror_vars, manifest_a, manifest_b, dirs, dot_har, cwd, process, cmd>>

\* encrypt.decrypt_blob on the blob encrypt_blob returned, or on its first
\* bytes, with the key it was made with or with another.
Decrypt ==
    /\ applied # None
    /\ IF applied[1].op = "encrypt" THEN applied[1].result[1] = "Ok" ELSE FALSE
    /\ \E key \in Keys, n \in 0..Len(applied[1].result[2]) :
          applied' = Some([op |-> "decrypt", key |-> key, sealed_with |-> applied[1].key,
                           plain_text |-> applied[1].data,
                           input |-> SubSeq(applied[1].result[2], 1, n),
                           whole |-> n = Len(applied[1].result[2]),
                           result |-> decrypt_blob_bytes(key, SubSeq(applied[1].result[2], 1, n))])
    /\ UNCHANGED <<storage_vars, mirror_vars, manifest_a, manifest_b, dirs, dot_har, cwd, process, cmd>>

NextCipher ==
    \/ Encrypt
    \/ Decrypt

SpecCipher == InitManifest /\ [][NextCipher]_vars

\* C24: for every key and plaintext, decrypt_blob of the blob encrypt_blob
\* returned, under the same key, returns the plaintext; and decrypt_blob
\* returns an error for every input shorter than nonce_size + 1 = 13 bytes.
C24_DecryptInvertsEncrypt ==
    (applied # None /\ applied[1].op = "decrypt")
        => /\ (applied[1].whole /\ applied[1].key = applied[1].sealed_with)
                  => applied[1].result = <<"Ok", applied[1].plain_text>>
           /\ Len(applied[1].input) < 13 => applied[1].result[1] = "Err"

\* A blob of a plaintext of MaxSize bytes has been decrypted under its key.
C24_Witness ==
    /\ applied # None /\ applied[1].op = "decrypt"
    /\ applied[1].whole /\ applied[1].key = applied[1].sealed_with
    /\ Len(applied[1].plain_text) = MaxSize
    /\ applied[1].result = <<"Ok", Payload(MaxSize)>>

\* ------------------------------------- push and pull of files over the limit
\* The test push1, and a pull alike: every file is larger than active_size_limit, at
\* least one task is allowed, and nothing fails: no read, write or request
\* returns an error.
InitOverLimit ==
    /\ Init
    /\ config.active_tasks_limit >= 1
    /\ \A i \in DOMAIN files : files[i].size > config.active_size_limit

Healthy ==
    /\ pc # "err"
    /\ \A t \in DOMAIN threads : threads[t].fault = "none"

NextOverLimit ==
    \/ MirrorEnter /\ Healthy'
    \/ PushAdmit /\ Healthy'
    \/ PullAdmit /\ Healthy'
    \/ MirrorDrain /\ Healthy'
    \/ MirrorReturnOk /\ Healthy'
    \/ TaskStep /\ Healthy'

SpecOverLimit == InitOverLimit /\ [][NextOverLimit]_vars

\* The loop and the threads it spawned keep running.
FairOverLimit == SpecOverLimit /\ WF_vars(NextOverLimit)

\* push or pull has returned Ok with every file transferred.
AllTransferred ==
    /\ pc = "ok"
    /\ \A i \in DOMAIN files :
          IF mode = "push"
          THEN /\ results[i] = Some(<<"Ok", FileKey(backend, files[i])>>)
               /\ FileKey(backend, files[i]) \in DOMAIN store
               /\ decrypt_blob(store[FileKey(backend, files[i])]) = <<"Ok", FileData(files[i])>>
          ELSE /\ files[i].path \in DOMAIN disk
               /\ disk[files[i].path] = FileData(files[i])

\* C25: when every file is larger than active_size_limit (and nothing fails),
\* push and pull return Ok with every file transferred, and at no time is
\* more than one task in flight.
C25_OverLimitCompletes ==
    /\ [](Cardinality(InFlight) <= 1)
    /\ [](pc \notin {"err", "panic"})
    /\ <>AllTransferred

\* A push of MaxFiles files, each over a limit of one byte, with MaxFiles
\* tasks allowed, has returned Ok.
C25_Witness ==
    /\ AllTransferred
    /\ mode = "push"
    /\ Len(files) = MaxFiles
    /\ config = [active_tasks_limit |-> MaxFiles, active_size_limit |-> 1]

\* ------------------------------------------------- run_task and the senders
\* C26: when run_task returns, the helper's sender list holds no sender whose
\* receiver was dropped before the call and holds every sender of the list
\* whose receiver is alive, in the same order; the thread spawned by the call
\* has exactly this list as its snapshot.
C26_RunTaskPrunes ==
    [][Len(issued') > Len(issued)
          => /\ \A r \in Range(senders') : rx[r].alive
             /\ \A r \in Range(senders) : rx[r].alive => r \in Range(senders')
             /\ senders' = SelectSeq(senders, LAMBDA r : rx[r].alive)
             /\ threads'[Last(issued')].snapshot = senders']_vars

\* A task was spawned after one of two receivers had been dropped: the list
\* and the snapshot hold the sender of the other one only.
C26_Witness ==
    \E t \in DOMAIN threads :
        /\ t = Last(issued)
        /\ threads[t].snapshot = senders
        /\ Len(senders) = 1
        /\ Len(rx) = 2
        /\ \E r \in DOMAIN rx : ~rx[r].alive /\ r \notin threads[t].live

\* ------------------------------------------------------ a fresh subscriber
\* The default upload_blocking / download_blocking of the BlobStorage trait,
\* step by step, on a handle that other subscribers and earlier tasks use:
\* let events = self.events();
FreshEvents ==
    /\ events = 0
    /\ Subscribe
    /\ events' = Len(rx) + 1
    /\ UNCHANGED <<tree_vars, backend, store, next_task_id, threads, issued, ret, mode, files,
                   config, pc, active_tasks, active_size, results, sizes, next_index, task_of,
                   received, disk>>

\* let task_id = self.upload(data, key);
FreshSubmit ==
    \E c \in ExistsCalls :
        /\ events # 0
        /\ task_of = EmptyFn
        /\ RunTask(c.kind, c.key, c.data)
        /\ task_of' = Put(task_of, 0, next_task_id)
        /\ UNCHANGED <<tree_vars, backend, store, rx, ret, mode, files, config, pc, events,
                       active_tasks, active_size, results, sizes, next_index, received, disk>>

\* let event = events.recv()
FreshRecv ==
    /\ task_of # EmptyFn
    /\ rx[events].queue # <<>>
    /\ received' = Append(received, Head(rx[events].queue))
    /\ rx' = [rx EXCEPT ![events].queue = Tail(@)]
    /\ UNCHANGED <<tree_vars, backend, store, senders, next_task_id, threads, issued, ret, mode,
                   files, config, pc, events, active_tasks, active_size, results, sizes,
                   next_index, task_of, disk>>

\* Before the call, the handle's other users subscribe and submit tasks.
NextFresh ==
    \/ ClientEvents(MaxRx)
    \/ \E c \in ExistsCalls : events = 0 /\ ClientSubmit(MaxRuns, c.kind, c.key, c.data)
    \/ FreshEvents
    \/ FreshSubmit
    \/ FreshRecv
    \/ TaskStep

SpecFresh == InitStorage /\ [][NextFresh]_vars

\* What the fresh receiver holds or has handed to recv().
FreshSeen == Range(rx[events].queue) \cup Range(received)

\* C27: a receiver obtained from events() never receives an event of a task
\* submitted before that events() call, also when the task is still running
\* at the subscription: every event sent goes only to receivers that were
\* subscribed when its task was submitted; so the first event a fresh
\* subscriber receives after submitting one task carries that task's id.
C27_NoEarlierEvents ==
    /\ [](events # 0 =>
             \A e \in FreshSeen : task_of # EmptyFn /\ e.id = task_of[0])
    /\ [][\A t \in DOMAIN threads, r \in DOMAIN rx :
             (r \in DOMAIN rx' /\ Len(rx'[r].queue) > Len(rx[r].queue) /\ t \notin DOMAIN threads')
                 => r \in threads[t].live]_vars

\* recv() has returned the event of the task submitted after the
\* subscription, while a task submitted before it is still running.
C27_Witness ==
    /\ received # <<>>
    /\ received[1].id = task_of[0]
    /\ \E t \in DOMAIN threads : t < task_of[0]

\* ------------------------------------------------------------ joining paths
\* The entry a chain of parent-to-child links leads to: every component is
\* normal and names a child of the entry the components before it lead to.
RECURSIVE Chain(_, _, _)
Chain(manifest, from, comps) ==
    IF comps = <<>> THEN Some(from)
    ELSE IF Head(comps) \in {"/", ".", ".."} THEN None
    ELSE IF /\ get_entry(manifest, from).kind = "dir"
            /\ Head(comps) \in DOMAIN get_entry(manifest, from).entries
    THEN Chain(manifest, get_entry(manifest, from).entries[Head(comps)], Tail(comps))
    ELSE None

\* The join that ended last.
LastJoin == applied[1]
JoinedComponents == components(LastJoin.path)

\* A component of the path follows one that leads to a file.
ThroughFile ==
    \E k \in 1..(Len(JoinedComponents) - 1) :
        LET to == Chain(manifest_a, LastJoin.base, SubSeq(JoinedComponents, 1, k))
        IN  IF to = None THEN FALSE ELSE get_entry(manifest_a, to[1]).kind = "file"

\* C28: join_and_get_entry_id(base, path) fails whenever a component of path
\* is not the name of a child of the entry the components before it lead to
\* (a file has no children), and whenever path has a root or another
\* component that is not normal; an id it returns is the end of a chain of
\* parent-to-child links from base.
C28_JoinFollowsLinks ==
    (applied # None /\ applied[1].op = "join" /\ LastJoin.result[1] = "Ok")
        => Chain(manifest_a, LastJoin.base, JoinedComponents) = Some(LastJoin.result[2])

\* The same, for the paths in which no component follows a file.
C28_FollowsLinksPastDirs ==
    (applied # None /\ applied[1].op = "join" /\ LastJoin.result[1] = "Ok" /\ ~ThroughFile)
        => Chain(manifest_a, LastJoin.base, JoinedComponents) = Some(LastJoin.result[2])

\* A path of two components has led through a directory to its child.
C28_Witness ==
    /\ applied # None /\ applied[1].op = "join"
    /\ LastJoin.result[1] = "Ok"
    /\ Len(JoinedComponents) = 2
    /\ ~ThroughFile
    /\ LastJoin.result[2] \in Range(get_entry(manifest_a, 1).entries)

\* C29: join_and_get_entry_id(base, the empty path) returns base, for every
\* entry id base of the manifest.
C29_EmptyPathIsBase ==
    (applied # None /\ applied[1].op = "join" /\ LastJoin.path = <<>>)
        => LastJoin.result = <<"Ok", LastJoin.base>>

\* The same, for the ids of directories.
C29_EmptyPathIsBaseDir ==
    (applied # None /\ applied[1].op = "join" /\ LastJoin.path = <<>>
        /\ get_entry(manifest_a, LastJoin.base).kind = "dir")
        => LastJoin.result = <<"Ok", LastJoin.base>>

\* The empty path was joined to a directory inside a directory.
C29_Witness ==
    /\ applied # None /\ applied[1].op = "join"
    /\ LastJoin.path = <<>>
    /\ LastJoin.base = MaxEntries
    /\ get_map_parent(manifest_a)[LastJoin.base] # manifest_a.root
    /\ LastJoin.result = <<"Ok", LastJoin.base>>

\* ------------------------------------------------ merging A into B
\* The paths of the files of A.
FilePathsOfA ==
    {full_path(manifest_a, e) :
        e \in {id \in EntryIds(manifest_a) : get_entry(manifest_a, id).kind = "file"}}

\* The name the upload of the file at a path returned: every file holds other
\* bytes (here its own path), so no two files have the same name.
UploadedKey(path) == get_hash_name("dir", path)

\* add_new_entries_to_manifest(A, B, diff(A, B), blob_keys), with the keys of
\* the files at the paths known. B is changed in place.
Merge(known) ==
    LET diff == diff_manifests(manifest_a, manifest_b)
        blob_keys == [path \in known |-> UploadedKey(path)]
    IN  /\ diff[1] = "Ok"
        /\ LET merged == add_new_entries_to_manifest(manifest_a, manifest_b,
                                                     diff[2].top_extra_ids_in_a, blob_keys)
           IN  /\ manifest_b' = merged.manifest
               /\ applied' = Some([op |-> "merge", on |-> "b", before |-> manifest_b,
                                   blob_keys |-> blob_keys, result |-> merged.result])
        /\ UNCHANGED <<storage_vars, mirror_vars, manifest_a, dirs, dot_har, cwd, process, cmd>>

\* A caller that builds A, then B, and merges the first into the second.
NextMerge ==
    \/ \E on \in {"a", "b"}, entry \in NewEntries, parent_dir \in 0..MaxEntries :
          /\ Len(ManifestOf(on).entries) <= (IF on = "a" THEN MaxEntries ELSE MaxEntries - 1)
          /\ on = "a" => manifest_b = ManifestNew
          /\ AddEntry(on, entry, parent_dir)
    \/ \E known \in SUBSET FilePathsOfA : Merge(known)

SpecMerge == InitManifest /\ [][NextMerge]_vars

\* manifest.add(entry, parent_dir) on A or on B by a caller that keeps no
\* record of it: a local tree that changes, a remote manifest that others push.
BuildEntry(on, entry, parent_dir) ==
    /\ parent_dir \in EntryIds(ManifestOf(on))
    /\ Len(ManifestOf(on).entries) <= (IF on = "a" THEN MaxEntries ELSE MaxEntries - 1)
    /\ LET done == add(ManifestOf(on), entry, parent_dir)
       IN  /\ manifest_a' = IF on = "a" THEN done.manifest ELSE manifest_a
           /\ manifest_b' = IF on = "b" THEN done.manifest ELSE manifest_b
    /\ applied' = None
    /\ UNCHANGED <<storage_vars, mirror_vars, dirs, dot_har, cwd, process, cmd>>

\* A is built, then B, and A is merged into B; B may grow between merges.
NextSync ==
    \/ \E on \in {"a", "b"}, entry \in NewEntries, parent_dir \in 0..MaxEntries :
          /\ on = "a" => manifest_b = ManifestNew
          /\ BuildEntry(on, entry, parent_dir)
    \/ \E known \in SUBSET FilePathsOfA : Merge(known)

SpecSync == InitManifest /\ [][NextSync]_vars

\* The manifest a call changed, before and after it.
Before == applied[1].before
After == ManifestOf(applied[1].on)

\* The ids of After that Before did not have.
NewIds == EntryIds(After) \ EntryIds(Before)

\* Every entry of Before is in After at the same id with the same name, kind,
\* blob key and size, and with every child it had; the children it gained are
\* new entries.
OldEntriesKept ==
    /\ After.root = Before.root
    /\ Len(After.entries) >= Len(Before.entries)
    /\ \A id \in EntryIds(Before) :
          LET old == get_entry(Before, id)
              new == get_entry(After, id)
          IN  /\ new.name = old.name /\ new.kind = old.kind
              /\ new.blob_key = old.blob_key /\ new.size = old.size
              /\ DOMAIN old.entries \subseteq DOMAIN new.entries
              /\ \A name \in DOMAIN old.entries : new.entries[name] = old.entries[name]
              /\ \A name \in DOMAIN new.entries \ DOMAIN old.entries :
                    new.entries[name] \in NewIds

\* Every new entry is listed once, by one directory, under its own name and
\* with its place in the arena as its id.
NewEntriesLinked ==
    \A id \in NewIds :
        Cardinality({<<d, name>> \in EntryIds(After) \X Names :
                        /\ name \in DOMAIN get_entry(After, d).entries
                        /\ get_entry(After, d).entries[name] = id
                        /\ name = get_entry(After, id).name}) = 1

\* C30: add and add_new_entries_to_manifest remove and renumber nothing:
\* every entry present before the call keeps its id, name, kind, blob key and
\* size, directories only gain children, and every entry added has as id the
\* length the arena had just before it was added (for add: the id returned).
C30_ArenaOnlyGrows ==
    (applied # None /\ applied[1].op \in {"add", "merge"})
        => /\ OldEntriesKept
           /\ NewEntriesLinked
           /\ (applied[1].op = "add" /\ applied[1].result[1] = "Ok")
                  => /\ applied[1].result[2] = Len(Before.entries)
                     /\ NewIds = {Len(Before.entries)}
           /\ (applied[1].op = "add" /\ applied[1].result[1] = "Err") => NewIds = {}

\* A merge has added a directory and the entry inside it to a manifest that
\* already had an entry under its root.
C30_Witness ==
    /\ applied # None /\ applied[1].op = "merge"
    /\ applied[1].result[1] = "Ok"
    /\ Len(Before.entries) >= 2
    /\ Cardinality(NewIds) >= 2
    /\ \E id \in NewIds : get_map_parent(After)[id] \in NewIds

\* ------------------------------------------------ C31
\* The path in A of the directory that lists an entry of A.
ParentPathInA(entry_id) ==
    LET map_parent_src == get_map_parent(manifest_a)
    IN  get_full_path(manifest_a, map_parent_src[entry_id], map_parent_src)

\* What step 1 gets for the destination parent of a top extra, in B as it is.
ParentInB(entry_id) ==
    join_and_get_entry_id(manifest_b, manifest_b.root, ParentPathInA(entry_id))

\* C31: for every top-extra id of diff(A, B) the path of its parent in A leads
\* in B to a Directory that has this very path, and a merge never ends with
\* an error of join_and_get_entry_id: when it fails, a blob key was missing.
C31_ParentOfTopExtraInB ==
    LET diff == diff_manifests(manifest_a, manifest_b)
    IN  /\ diff[1] = "Ok" =>
              \A i \in DOMAIN diff[2].top_extra_ids_in_a :
                  LET found == ParentInB(diff[2].top_extra_ids_in_a[i])
                  IN  /\ found[1] = "Ok"
                      /\ get_entry(manifest_b, found[2]).kind = "dir"
                      /\ full_path(manifest_b, found[2])
                             = ParentPathInA(diff[2].top_extra_ids_in_a[i])
        /\ (applied # None /\ applied[1].op = "merge") =>
              applied[1].result \in {<<"Ok", <<>>>>,
                                     <<"Err", "Did not find path-key entry in map">>}

\* A and B share a directory under the root, A has an entry in it that B
\* lacks, and step 1 is about to look the directory up in B.
C31_Witness ==
    LET diff == diff_manifests(manifest_a, manifest_b)
    IN  /\ diff[1] = "Ok"
        /\ \E i \in DOMAIN diff[2].top_extra_ids_in_a :
              /\ Len(ParentPathInA(diff[2].top_extra_ids_in_a[i])) >= 1
              /\ ParentInB(diff[2].top_extra_ids_in_a[i])[1] = "Ok"
              /\ ParentInB(diff[2].top_extra_ids_in_a[i])[2] # manifest_b.root


\* ------------------------------------------------ C32
\* The files the merge had to add: the files of A in the subtrees of the top
\* extras of diff(A, B), B as it was before the call.
FilesToAdd ==
    LET diff == diff_manifests(manifest_a, Before)
    IN  UNION {Range(get_child_files_recurs(manifest_a, diff[2].top_extra_ids_in_a[i])) :
                  i \in DOMAIN diff[2].top_extra_ids_in_a}

\* C32: every File a merge added has the name and the size of the file of A
\* at the same path and the blob key the mapping gives for that path, never
\* the placeholder of from_fs; and the merge fails when the mapping lacks the
\* path of a file it had to add.
C32_AddedFilesTakeMappedKey ==
    (applied # None /\ applied[1].op = "merge")
        => /\ \A id \in NewIds :
                  get_entry(After, id).kind = "file"
                      => LET path == full_path(After, id)
                             new == get_entry(After, id)
                         IN  /\ path \in DOMAIN applied[1].blob_keys
                             /\ new.blob_key = applied[1].blob_keys[path]
                             /\ new.blob_key # DefaultKey
                             /\ \E e \in FilesToAdd :
                                    /\ full_path(manifest_a, e) = path
                                    /\ get_entry(manifest_a, e).name = new.name
                                    /\ get_entry(manifest_a, e).size = new.size
           /\ (\E e \in FilesToAdd : full_path(manifest_a, e) \notin DOMAIN applied[1].blob_keys)
                  => applied[1].result[1] = "Err"

\* A merge with the keys of all files has added two files of different size
\* under different keys.
C32_Witness ==
    /\ applied # None /\ applied[1].op = "merge"
    /\ applied[1].result[1] = "Ok"
    /\ \E id1, id2 \in NewIds :
          /\ get_entry(After, id1).kind = "file" /\ get_entry(After, id2).kind = "file"
          /\ get_entry(After, id1).size # get_entry(After, id2).size
          /\ get_entry(After, id1).blob_key # get_entry(After, id2).blob_key

\* ------------------------------------------------ C33
\* The test of push on its diff: nothing to push, it returns before it calls
\* Mirror::push.
NothingToPush(local_manifest, remote_manifest) ==
    LET diff == diff_manifests(local_manifest, remote_manifest)
    IN  diff[1] = "Ok" /\ diff[2].top_extra_ids_in_a = <<>>

\* C33: after a merge of A into B that succeeded, every path of A that is not
\* the root-level .har or below it resolves in B, and the diff of A against B
\* made again returns and has no top extras and counts no extra file and no
\* extra directory: a push that finds this diff returns at once.
C33_MergeLeavesNoExtras ==
    (applied # None /\ applied[1].op = "merge" /\ applied[1].result[1] = "Ok")
        => /\ \A e \in EntryIds(manifest_a) :
                  ~UnderDotHar(full_path(manifest_a, e))
                      => Resolves(manifest_b, full_path(manifest_a, e))
           /\ NothingToPush(manifest_a, manifest_b)
           /\ diff_manifests(manifest_a, manifest_b)[2].extra_files_in_a = 0
           /\ diff_manifests(manifest_a, manifest_b)[2].extra_dirs_in_a = 0

\* A merge has added a directory of A and the file inside it to a B that had
\* another entry, and all of A is now in B.
C33_Witness ==
    /\ applied # None /\ applied[1].op = "merge" /\ applied[1].result[1] = "Ok"
    /\ Len(Before.entries) >= 2
    /\ \E id \in NewIds :
          /\ get_entry(After, id).kind = "file"
          /\ get_map_parent(After)[id] \in NewIds
    /\ NothingToPush(manifest_a, manifest_b)

\* End to end: a push that starts right after a push that succeeded on the
\* same tree returns Ok at once, and starts no transfer.
C33_SecondPushUploadsNothing ==
    [][(Ended("push") /\ cmd[1].result[1] = "Ok" /\ cmd' # cmd /\ cmd'[1].name = "push")
          => /\ cmd'[1].stage = "done"
             /\ cmd'[1].result = <<"Ok", <<>>>>
             /\ UNCHANGED <<store, threads, next_task_id, dot_har>>]_vars

\* ------------------------------------------------ diff with hash check
\* The entries of a manifest that was pushed or built from the local tree: a
\* file has the name of one byte of 42 in the bucket, or the placeholder.
KeyedEntries ==
    {Directory(name, EmptyFn) : name \in Names}
        \cup {File(name, key, 1) : name \in Names,
                                   key \in {get_hash_name("bucket", Payload(1)), DefaultKey}}

\* WithLocal::diff with hash check: the files of A are under the archive root,
\* those in big with two bytes and the others with one.
DiffHashCheck(bucket_name, big) ==
    LET archive_root == [path \in FilePathsOfA |->
                            IF path \in big THEN Payload(2) ELSE Payload(1)]
        diff == with_hash_check(DiffManifestsDefault, archive_root, bucket_name)
    IN  /\ applied' = Some([op |-> "hash_diff", archive_root |-> archive_root,
                            bucket_name |-> bucket_name,
                            result |-> DiffManifests_diff_manifests(diff, manifest_a,
                                                                    manifest_b)])
        /\ UNCHANGED <<storage_vars, mirror_vars, manifest_a, manifest_b, dirs, dot_har,
                       cwd, process, cmd>>

\* A is built, then B, and A is diffed against B, with hash check or without.
NextHash ==
    \/ \E entry \in NewEntries, parent_dir \in 0..MaxEntries :
          /\ manifest_b = ManifestNew
          /\ BuildEntry("a", entry, parent_dir)
    \/ \E entry \in KeyedEntries, parent_dir \in 0..MaxEntries :
          BuildEntry("b", entry, parent_dir)
    \/ \E bucket_name \in {"bucket", "dir"}, big \in SUBSET FilePathsOfA :
          DiffHashCheck(bucket_name, big)
    \/ DiffAB

SpecHash == InitManifest /\ [][NextHash]_vars

\* The directory of B that has the path of the directory of A listing an
\* entry of A, if there is one.
MatchingDir(entry_id) ==
    IF ParentInB(entry_id)[1] = "Ok"
           /\ get_entry(manifest_b, ParentInB(entry_id)[2]).kind = "dir"
           /\ full_path(manifest_b, ParentInB(entry_id)[2]) = ParentPathInA(entry_id)
    THEN Some(get_entry(manifest_b, ParentInB(entry_id)[2]))
    ELSE None

\* The files of A whose name the matching directory of B has.
FilesInBoth ==
    {e \in OfKind(EntryIds(manifest_a), "file") :
        /\ MatchingDir(e) # None
        /\ get_entry(manifest_a, e).name \in DOMAIN MatchingDir(e)[1].entries}

EntryInB(e) == get_entry(manifest_b, MatchingDir(e)[1].entries[get_entry(manifest_a, e).name])

\* The paths the claim names: the files in both whose bytes, hashed again with
\* the bucket name, do not give the blob key B has for them (a directory of B
\* has none).
DifferentPaths(S) ==
    {full_path(manifest_a, e) :
        e \in {f \in S :
                  \/ EntryInB(f).kind # "file"
                  \/ get_hash_name(applied[1].bucket_name,
                                   applied[1].archive_root[full_path(manifest_a, f)])
                         # EntryInB(f).blob_key}}

NoDuplicates(seq) == \A i, j \in DOMAIN seq : seq[i] = seq[j] => i = j

\* C34 as stated: a diff with hash check returns, and its
\* paths_of_different_files are exactly the paths of the files of A whose name
\* the matching directory of B has and whose bytes hash to another key than B
\* records; a diff without hash check has none.
C34_DifferentFilesExact ==
    /\ (applied # None /\ applied[1].op = "hash_diff")
           => /\ LastDiff[1] = "Ok"
              /\ Range(LastDiff[2].paths_of_different_files) = DifferentPaths(FilesInBoth)
    /\ (applied # None /\ applied[1].op = "diff" /\ LastDiff[1] = "Ok")
           => LastDiff[2].paths_of_different_files = <<>>

\* What holds: a diff with hash check that returns lists exactly these paths,
\* each once, the root-level .har and what is below it aside; it panics when a
\* name is a file on one side and a directory on the other in directories it
\* visits; a diff without hash check lists none.
C34_ExactWhenItReturns ==
    /\ (applied # None /\ applied[1].op = "hash_diff" /\ LastDiff[1] = "Ok")
           => /\ Range(LastDiff[2].paths_of_different_files)
                     = DifferentPaths({e \in FilesInBoth :
                                          ~UnderDotHar(full_path(manifest_a, e))})
              /\ NoDuplicates(LastDiff[2].paths_of_different_files)
              /\ \A e \in FilesInBoth :
                     ~UnderDotHar(full_path(manifest_a, e)) => EntryInB(e).kind = "file"
    /\ (applied # None /\ applied[1].op = "hash_diff" /\ LastDiff[1] = "panic")
           => \E e \in EntryIds(manifest_a) \ {manifest_a.root} :
                 /\ MatchingDir(e) # None
                 /\ get_entry(manifest_a, e).name \in DOMAIN MatchingDir(e)[1].entries
                 /\ EntryInB(e).kind # get_entry(manifest_a, e).kind
    /\ (applied # None /\ applied[1].op = "diff" /\ LastDiff[1] = "Ok")
           => LastDiff[2].paths_of_different_files = <<>>

\* A diff with hash check of two files against a B that has one of them has
\* returned; the file on both sides has the bytes B records, hashed with the
\* bucket name of another remote, and is listed.
C34_Witness ==
    /\ applied # None /\ applied[1].op = "hash_diff" /\ LastDiff[1] = "Ok"
    /\ Cardinality(OfKind(EntryIds(manifest_a), "file")) = 2
    /\ Cardinality(FilesInBoth) = 1
    /\ Len(LastDiff[2].paths_of_different_files) = 1
    /\ \E e \in FilesInBoth :
          /\ applied[1].archive_root[full_path(manifest_a, e)] = Payload(1)
          /\ EntryInB(e).blob_key = get_hash_name("bucket", Payload(1))
          /\ applied[1].bucket_name = "dir"

\* A diff with hash check has panicked on a file of A whose name is a
\* directory of B.
C34_FileOverDirectory ==
    /\ applied # None /\ applied[1].op = "hash_diff" /\ LastDiff[1] = "panic"
    /\ Len(manifest_a.entries) = 2 /\ Len(manifest_b.entries) = 2
    /\ get_entry(manifest_a, 1).kind = "file" /\ get_entry(manifest_b, 1).kind = "dir"
    /\ get_entry(manifest_a, 1).name = get_entry(manifest_b, 1).name

\* ------------------------------------------------ a task that panics
\* The closure run_task spawns starts with set_thread_panic_hook(), which is
\* take_hook() and then set_hook(..): two steps on the one hook of the
\* process. The other specifications follow a thread from task.run on.
\* take_hook(): the hook is the default one until a set_hook.
TakeHook(t) ==
    /\ t \in DOMAIN threads
    /\ threads[t].at = "run"
    /\ t \notin process.inside \cup process.hooked
    /\ process' = [process EXCEPT !.hook = "default", !.inside = @ \cup {t}]
    /\ UNCHANGED <<storage_vars, mirror_vars, manifest_a, manifest_b, applied, dirs, dot_har,
                   cwd, cmd>>

\* set_hook(Box::new(move |panic_info| { orig_hook(panic_info); exit(1); }))
SetHook(t) ==
    /\ t \in process.inside
    /\ process' = [process EXCEPT !.hook = "exit", !.inside = @ \ {t}, !.hooked = @ \cup {t}]
    /\ UNCHANGED <<storage_vars, mirror_vars, manifest_a, manifest_b, applied, dirs, dot_har,
                   cwd, cmd>>

\* task.run(..) panics before it has sent an event (an unwrap in the task or
\* below it, as local_dir_path.to_str().unwrap()): the hook of the process
\* runs. The exit hook ends the process with status 1; the default hook
\* prints, and the thread unwinds and ends, dropping its senders.
TaskPanic(t) ==
    /\ t \in DOMAIN threads
    /\ t \in process.hooked
    /\ threads[t].at = "run"
    /\ IF process.hook = "exit"
       THEN /\ process' = [process EXCEPT !.exit = Some(1)]
            /\ UNCHANGED threads
       ELSE /\ threads' = [threads EXCEPT ![t].at = "panicked"]
            /\ UNCHANGED process
    /\ UNCHANGED <<backend, store, senders, next_task_id, rx, issued, ret, mirror_vars,
                   manifest_a, manifest_b, applied, dirs, dot_har, cwd, cmd>>

\* A push or a pull on the local directory with room for every file at once.
InitPanic ==
    /\ Init
    /\ backend = "local"
    /\ config = [active_tasks_limit |-> MaxFiles, active_size_limit |-> MaxSize + 1]

Running == process.exit = None

\* Mirror::push / Mirror::pull with task threads that may panic, until the
\* process exits.
NextPanic ==
    \/ Running /\ MirrorEnter
    \/ Running /\ PushAdmit
    \/ Running /\ PullAdmit
    \/ Running /\ MirrorDrain
    \/ Running /\ MirrorReturnOk
    \/ \E t \in TaskIds : Running /\ TakeHook(t)
    \/ \E t \in TaskIds : Running /\ SetHook(t)
    \/ \E t \in TaskIds : Running /\ t \in process.hooked /\ TaskRun(t)
    \/ \E t \in TaskIds : Running /\ TaskSend(t)
    \/ \E t \in TaskIds : Running /\ TaskPanic(t)

SpecPanic == InitPanic /\ [][NextPanic]_vars

\* The tasks whose thread has panicked and ended without an event.
Panicked == {t \in DOMAIN threads : threads[t].at = "panicked"}

\* The loop is in events.recv() with nothing to receive, and a task it waits
\* for has panicked.
BlockedOnPanicked ==
    /\ pc = "loop" /\ ~CanAdmit
    /\ rx[events].queue = <<>>
    /\ DOMAIN active_tasks \cap Panicked # {}

\* C35 as stated: when a task thread has panicked before its terminal event,
\* the process has exited with status 1; in no state does the process run on
\* with the loop blocked in recv on a task that has panicked.
C35_PanicExitsProcess ==
    /\ Panicked # {} => process.exit = Some(1)
    /\ ~(Running /\ BlockedOnPanicked)

\* What holds: a panic ends the process unless another thread is at that
\* moment between its take_hook and its set_hook; while no thread is there,
\* the hook of a process that has started a task is the one that exits.
C35_ExitsUnlessHookTaken ==
    [][/\ \A t \in DOMAIN threads :
             (threads[t].at = "run" /\ threads'[t].at = "panicked")
                 => process.inside \ {t} # {}
       /\ (process.inside = {} /\ process.hooked # {}) => process.hook = "exit"]_vars

\* A task has panicked with the exit hook in place: the process has exited
\* while another task was in flight.
C35_Witness ==
    /\ process.exit = Some(1)
    /\ Cardinality(DOMAIN active_tasks) = 2
    /\ Panicked = {}

\* The process runs on, the loop blocked for ever in recv: the only task left
\* in flight has panicked, the other one has ended.
C35_Hung ==
    /\ Running /\ BlockedOnPanicked
    /\ DOMAIN threads = Panicked

\* ------------------------------------ a second transfer on the same Mirror
\* The input of the next call: the same paths and sizes, pushed or pulled.
FilesFor(m) ==
    LET fs == [i \in DOMAIN files |-> [path |-> files[i].path, size |-> files[i].size]]
    IN  IF m = "pull" THEN Keyed(backend, fs) ELSE fs

\* The first push or pull has returned, Ok or Err, and the caller calls push
\* or pull on the same Mirror again: new locals, the same blob_storage with
\* its senders, its next task id and the threads that still run.
MirrorAgain ==
    /\ pc \in {"ok", "err"}
    /\ Len(rx) = 1
    /\ \E m \in {"push", "pull"} :
          /\ mode' = m
          /\ files' = FilesFor(m)
    /\ pc' = "init"
    /\ events' = 0
    /\ active_tasks' = EmptyFn
    /\ active_size' = 0
    /\ results' = [i \in 1..Len(files) |-> None]
    /\ sizes' = [i \in 1..Len(files) |-> None]
    /\ next_index' = 0
    /\ task_of' = EmptyFn
    /\ received' = <<>>
    /\ UNCHANGED <<tree_vars, storage_vars, config, disk>>

NextAgain ==
    \/ MirrorEnter
    \/ PushAdmit
    \/ PullAdmit
    \/ MirrorDrain
    \/ MirrorReturnOk
    \/ MirrorAgain
    \/ \E t \in DOMAIN threads : TaskRun(t)
    \/ \E t \in DOMAIN threads : TaskSend(t)

\* Transfers of files of one byte on one Mirror over S3 (the TaskHelper of
\* blob_storage_tasks), one after the other, with room for every file at once.
InitAgain ==
    /\ Init
    /\ backend = "s3"
    /\ \A i \in DOMAIN files : files[i].size = 1
    /\ config = [active_tasks_limit |-> MaxFiles, active_size_limit |-> MaxSize + 1]

SpecAgain == InitAgain /\ [][NextAgain]_vars

\* The tasks an earlier call on this Mirror submitted and that still run.
Lingering == {t \in DOMAIN threads : events \notin Range(threads[t].snapshot)}

\* C36: every event the loop of push (pull) receives is Error or UploadSuccess
\* (DownloadSuccess) and has the id of a task in active_tasks at that moment;
\* the loop never panics, also in a call that follows one that returned while
\* its tasks were running.
C36_EventsAreExpected ==
    [][/\ Len(received') = Len(received) + 1 =>
             LET event == Head(rx[events].queue)
             IN  /\ event.content[1] \in
                        {"Error", IF mode = "push" THEN "UploadSuccess" ELSE "DownloadSuccess"}
                 /\ event.id \in DOMAIN active_tasks
       /\ pc' # "panic"]_vars

\* A call has received the event of one of its tasks while a task of an
\* earlier call, of the other kind, was still running.
C36_Witness ==
    /\ events = 2 /\ received # <<>>
    /\ \E t \in Lingering :
          threads[t].kind # (IF mode = "push" THEN "upload" ELSE "download")

\* -------------------------------------------------- the loop comes to an end
\* The loop and the threads it spawned keep running: a thread that can run or
\* send does so, the loop takes its next turn.
FairSpec == Spec /\ WF_vars(Next)

\* push or pull has returned: Ok, Err, or a panic unwinding.
Returned == pc \in {"ok", "err", "panic"}

\* C37 as stated: for every input list and every TransferConfig push and pull
\* return in the end, and when they return Ok every index has been submitted
\* and no task is in flight.
C37_AlwaysReturns ==
    /\ <>Returned
    /\ [](pc = "ok" => (next_index = NumFiles /\ DOMAIN active_tasks = {}))

\* What holds: with active_tasks_limit at least 1, or nothing to transfer,
\* push and pull return in the end; when they return Ok every index has been
\* submitted and no task is in flight.
C37_ReturnsWhenATaskMayRun ==
    /\ (config.active_tasks_limit >= 1 \/ NumFiles = 0) => <>Returned
    /\ [](pc = "ok" => (next_index = NumFiles /\ DOMAIN active_tasks = {}))

\* A transfer of the longest list, one task at a time, has returned Ok.
C37_Witness ==
    /\ pc = "ok" /\ NumFiles = MaxFiles
    /\ config.active_tasks_limit = 1
    /\ next_index = NumFiles /\ DOMAIN active_tasks = {}

\* active_tasks_limit is 0 and a file waits: no task is admitted, none is in
\* flight, and the outer loop turns for ever.
C37_Spinning ==
    /\ pc = "loop" /\ config.active_tasks_limit = 0
    /\ next_index < NumFiles /\ DOMAIN active_tasks = {}
    /\ ~ENABLED (PushAdmit \/ PullAdmit \/ MirrorDrain \/ MirrorReturnOk \/ TaskStep)

\* ------------------------------- the local directory under concurrent tasks
\* std::fs::write(path, data) is File::create(path), which truncates the file
\* when it is there, and write_all: two steps on dir/key. A reader in between
\* finds the file empty or cut short. TaskRun takes the two as one; here they
\* are apart, and nothing fails.
UploadCreate(t) ==
    /\ t \in DOMAIN threads
    /\ threads[t].kind = "upload" /\ threads[t].at = "run"
    /\ store' = Write(store, get_hash_name(Scope(backend), threads[t].data), TornBlob)
    /\ threads' = [threads EXCEPT ![t].at = "write"]
    /\ UNCHANGED <<tree_vars, backend, senders, next_task_id, rx, issued, ret, mirror_vars>>

UploadWrite(t) ==
    /\ t \in DOMAIN threads
    /\ threads[t].at = "write"
    /\ LET res == LocalUploadRun(store, threads[t].key, threads[t].data, "none")
       IN  /\ store' = res.store
           /\ threads' = [threads EXCEPT ![t].at = "send", ![t].out = res.events]
    /\ UNCHANGED <<tree_vars, backend, senders, next_task_id, rx, issued, ret, mirror_vars>>

\* DownloadTask::run, with a filesystem that does not fail.
DownloadRun(t) ==
    /\ t \in DOMAIN threads
    /\ threads[t].kind = "download"
    /\ TaskRun(t)
    /\ threads'[t].fault = "none"

\* UploadSuccess(key) has reached the client's receiver.
Uploaded(key) ==
    /\ rx # <<>>
    /\ \E i \in DOMAIN rx[1].queue : rx[1].queue[i].content = UploadSuccess(key)

\* A client of the local directory: it subscribes, uploads contents, the same
\* one again too, and downloads a key once an upload has reported it.
NextLocal ==
    \/ ClientEvents(1)
    \/ \E data \in Payloads :
          rx # <<>> /\ ClientSubmit(MaxTasks + 1, "upload", None, data)
    \/ \E data \in Payloads :
          /\ Uploaded(get_hash_name(Scope(backend), data))
          /\ ClientSubmit(MaxTasks + 1, "download",
                          Some(get_hash_name(Scope(backend), data)), <<>>)
    \/ \E t \in TaskIds : UploadCreate(t)
    \/ \E t \in TaskIds : UploadWrite(t)
    \/ \E t \in TaskIds : DownloadRun(t)
    \/ \E t \in TaskIds : TaskSend(t)

InitLocal ==
    /\ InitStorage
    /\ backend = "local"
    /\ store = EmptyFn

SpecLocal == InitLocal /\ [][NextLocal]_vars

\* The downloads that have read their file and have their event to send.
DownloadsDone == {t \in DOMAIN threads : threads[t].kind = "download" /\ threads[t].at = "send"}

\* The content whose upload resolves to key.
PlaintextOf(key) == CHOOSE data \in Payloads : get_hash_name(Scope(backend), data) = key

\* An upload of key has created the file and not yet written it.
BeingWritten(key) ==
    \E u \in DOMAIN threads :
        /\ threads[u].at = "write"
        /\ get_hash_name(Scope(backend), threads[u].data) = key

\* C38 as stated: on the local directory a download(k) started after
\* UploadSuccess(k) yields DownloadSuccess with the uploaded plaintext, also
\* while other uploads, of the same content too, run.
C38_DownloadAfterUploadSucceeds ==
    \A t \in DownloadsDone :
        threads[t].out = <<DownloadSuccess(PlaintextOf(threads[t].key[1]))>>

\* What holds: such a download yields the uploaded plaintext or the Error of a
\* blob that does not decrypt, never other bytes; and it yields the plaintext
\* when no upload of the same key is between creating the file and writing it
\* at the moment the download reads.
C38_WholeUnlessBeingWritten ==
    [][\A t \in DOMAIN threads :
          (threads[t].kind = "download" /\ threads[t].at = "run"
              /\ t \in DOMAIN threads' /\ threads'[t].at = "send") =>
             LET key == threads[t].key[1]
                 whole == <<DownloadSuccess(PlaintextOf(key))>>
             IN  /\ threads'[t].out \in {whole, <<Error("Error while decrypting")>>}
                 /\ ~BeingWritten(key) => threads'[t].out = whole]_vars

\* A download has the plaintext while a second upload of the same content has
\* yet to create the file.
C38_Witness ==
    \E t \in DownloadsDone :
        /\ threads[t].out = <<DownloadSuccess(PlaintextOf(threads[t].key[1]))>>
        /\ \E u \in DOMAIN threads :
              /\ threads[u].kind = "upload" /\ threads[u].at = "run"
              /\ get_hash_name(Scope(backend), threads[u].data) = threads[t].key[1]

\* A download started after UploadSuccess(k) has read the file a second upload
\* of the same content had created and not yet written.
C38_TornRead ==
    \E t \in DownloadsDone :
        /\ Uploaded(threads[t].key[1])
        /\ threads[t].out = <<Error("Error while decrypting")>>
        /\ BeingWritten(threads[t].key[1])

\* ----------------------------------------------- the entries below an entry
\* manifest.add(entry, parent_dir) on A, up to one entry more than the other
\* callers add, by a caller that keeps no record of it.
GrowA(entry, parent_dir) ==
    /\ parent_dir \in EntryIds(manifest_a)
    /\ Len(manifest_a.entries) <= MaxEntries + 1
    /\ manifest_a' = add(manifest_a, entry, parent_dir).manifest
    /\ applied' = None
    /\ UNCHANGED <<storage_vars, mirror_vars, manifest_b, dirs, dot_har, cwd, process, cmd>>

\* get_child_files_recurs(entry_id) and get_child_dirs_recurs(entry_id) on A.
ChildRecurs(entry_id) ==
    /\ entry_id \in EntryIds(manifest_a)
    /\ applied' = Some([op |-> "child_recurs", entry_id |-> entry_id,
                        files |-> get_child_files_recurs(manifest_a, entry_id),
                        dirs |-> get_child_dirs_recurs(manifest_a, entry_id)])
    /\ UNCHANGED <<storage_vars, mirror_vars, manifest_a, manifest_b, dirs, dot_har, cwd,
                   process, cmd>>

\* A caller that builds a manifest and asks for the files and the directories
\* below its entries.
NextChildren ==
    \/ \E entry \in NewEntries, parent_dir \in 0..(MaxEntries + 1) : GrowA(entry, parent_dir)
    \/ \E entry_id \in 0..(MaxEntries + 1) : ChildRecurs(entry_id)

SpecChildren == InitManifest /\ [][NextChildren]_vars

LastChildren == applied[1]

\* The subtree of an entry of A: the entry and what is below it.
Subtree(entry_id) == {entry_id} \cup Descendants(manifest_a, entry_id)

\* C39: get_child_files_recurs(e) holds exactly the File entries of the
\* subtree of e, each once (e alone when e is a File); get_child_dirs_recurs(e)
\* holds exactly the Directory entries of the subtree, e included, each once
\* (none when e is a File).
C39_ChildrenExact ==
    (applied # None /\ LastChildren.op = "child_recurs") =>
        LET e == LastChildren.entry_id
        IN  /\ Range(LastChildren.files) = OfKind(Subtree(e), "file")
            /\ NoDuplicates(LastChildren.files)
            /\ Range(LastChildren.dirs) = OfKind(Subtree(e), "dir")
            /\ NoDuplicates(LastChildren.dirs)
            /\ get_entry(manifest_a, e).kind = "file" =>
                   (LastChildren.files = <<e>> /\ LastChildren.dirs = <<>>)
            /\ get_entry(manifest_a, e).kind = "dir" => LastChildren.dirs[1] = e

\* Asked of the root of a tree with a file at the top and a file in a
\* directory: two files and two directories.
C39_Witness ==
    /\ applied # None /\ LastChildren.op = "child_recurs"
    /\ LastChildren.entry_id = manifest_a.root
    /\ Len(LastChildren.files) = 2 /\ Len(LastChildren.dirs) = 2
    /\ \E f \in Range(LastChildren.files) : Len(full_path(manifest_a, f)) = 2

\* --------------------------------------------------- the arena is a tree
\* The places an entry id is listed at: the directory and the key.
ListedAt(manifest, id) ==
    {<<d, k>> \in UNION {{<<e, n>> : n \in DOMAIN get_entry(manifest, e).entries} :
                            e \in EntryIds(manifest)} :
        get_entry(manifest, d).entries[k] = id}

IsTree(manifest) ==
    LET map_parent == get_map_parent(manifest)
        ids == EntryIds(manifest)
    IN  /\ manifest.root = 0
        /\ get_entry(manifest, 0).kind = "dir" /\ get_entry(manifest, 0).name = "ROOT"
        /\ ListedAt(manifest, 0) = {}
        /\ \A e \in ids : Range(get_entry(manifest, e).entries) \subseteq ids
        /\ {0} \cup Descendants(manifest, 0) = ids
        /\ DOMAIN map_parent = ids \ {0}
        /\ \A id \in ids \ {0} :
              /\ map_parent[id] \in ids
              /\ get_entry(manifest, map_parent[id]).kind = "dir"
              /\ ListedAt(manifest, id) = {<<map_parent[id], get_entry(manifest, id).name>>}

\* C40: after any sequence of add and add_new_entries_to_manifest calls from
\* Manifest::new(), entry 0 is the root directory named ROOT, every other
\* entry is listed by exactly one directory, under its own name, every entry
\* is reached from the root, and get_map_parent has a parent for every entry
\* but the root.
C40_ArenaIsATree == IsTree(manifest_a) /\ IsTree(manifest_b)

\* A merge has added a directory and the file in it to a B that had an entry
\* of its own.
C40_Witness ==
    /\ applied # None /\ applied[1].op = "merge" /\ applied[1].result[1] = "Ok"
    /\ Len(applied[1].before.entries) = 2
    /\ Len(manifest_b.entries) = 4
    /\ \E id \in EntryIds(manifest_b) : Len(full_path(manifest_b, id)) = 2

====
